---- MODULE Spec2Model ----
(***************************************************************************)
(* Model of the chat-completion request path of the Bedrock proxy:         *)
(* RequestHandler.handle_chat_completion with the collaborators it calls   *)
(* (AuthManager, BedrockFormatConverter, BedrockClient, ErrorHandler).     *)
(* One handler instance serves inbound calls one after the other; the      *)
(* position inside the call is pc, an exception in flight is exc.          *)
(* Further specifications cover the functions called on their own          *)
(* (SpecFunctions), the models list with the cache of BedrockClient        *)
(* (SpecModels), the secret cache of ConfigManager (SpecSecrets),          *)
(* overlapping calls of list_foundation_models (SpecThreads) and the       *)
(* calls of one handler compared with one another (SpecHistory).           *)
(*                                                                         *)
(* Conventions: a missing dict key is the string Absent, Python's None is  *)
(* the string None; fractional sampling parameters (temperature, top_p)    *)
(* are counted in tenths.                                                  *)
(***************************************************************************)
EXTENDS Integers, Sequences, FiniteSets, TLC

VARIABLES
    pc,                     \* position inside handle_chat_completion
    initialized,            \* RequestHandler._initialized
    require_auth,           \* AuthManager.require_auth
    event,                  \* the API Gateway event of the call in progress
    auth_result,            \* AuthResult of authenticate_request
    request_body,           \* parsed request body
    bedrock_request,        \* converted backend request
    bedrock_response,       \* reply of BedrockClient.converse
    exc,                    \* exception in flight
    backend_failure,        \* how the boto3 call of this call failed, if it did
    stream_state,           \* "none", "open", "ended" or "failed"
    streamed,               \* chunks yielded so far by converse_stream
    streaming_chunks,       \* _handle_streaming_response: converted chunks
    total_tokens,           \* _handle_streaming_response: running token total
    converse_calls,         \* calls of bedrock_client.converse in this call
    converse_stream_calls,  \* calls of bedrock_client.converse_stream in this call
    stages,                 \* stages completed, in order, in this call
    responses,              \* responses returned to the caller in this call
    call,                   \* a function called on its own: its name and arguments
    returned,               \* what that call returned or raised
    clock,                  \* time.time(), in seconds since the instance started
    ticks,                  \* how often the clock has advanced
    _models_cache,          \* BedrockClient._models_cache
    _cache_timestamp,       \* BedrockClient._cache_timestamp
    _cached_api_key,        \* ConfigManager._cached_api_key
    _cached_secret_data,    \* ConfigManager._cached_secret_data
    threads                 \* concurrent list_foundation_models calls: position and locals

vars == <<pc, initialized, require_auth, event, auth_result, request_body,
          bedrock_request, bedrock_response, exc, backend_failure,
          stream_state, streamed, streaming_chunks,
          total_tokens, converse_calls, converse_stream_calls, stages, responses,
          call, returned, clock, ticks, _models_cache, _cache_timestamp,
          _cached_api_key, _cached_secret_data, threads>>

\* ------------------------------------------------------------------ bounds
MaxEvents == 3

Absent == "<absent>"
None == "<None>"

\* ------------------------------------------------------------ permissions
\* A permission or action "ns:name" is the list of its parts, as str.split(':')
\* yields it.
ChatCompletion == <<"chat", "completion">>
ModelsList == <<"models", "list">>

\* ----------------------------------------------------------- credentials
\* What the event's headers carry. kind names the branch authenticate_request
\* takes; permissions is the claim list of a decoded JWT.
Cred(kind, permissions) == [kind |-> kind, permissions |-> permissions]

Credentials ==
    { Cred("none", {}),
      Cred("api_key", {}),
      Cred("jwt_expired", {ChatCompletion}),
      Cred("jwt", {<<"models", "*">>}),
      Cred("jwt", {<<"chat", "*">>}) }

AuthResult(authenticated, permissions, error_message) ==
    [authenticated |-> authenticated, permissions |-> permissions,
     error_message |-> error_message]

NoAuthResult == AuthResult(FALSE, {}, Absent)

authenticate_request(requireAuth, cred) ==
    IF ~requireAuth THEN AuthResult(TRUE, {}, None)
    ELSE CASE cred.kind = "none" ->
                AuthResult(FALSE, {}, "No authentication credentials provided")
           [] cred.kind = "bearer_short" -> AuthResult(FALSE, {}, "Token too short")
           [] cred.kind = "bearer_simple" ->
                AuthResult(TRUE, {ChatCompletion, ModelsList}, None)
           [] cred.kind = "api_key_bad" -> AuthResult(FALSE, {}, "Invalid API key format")
           [] cred.kind = "api_key" ->
                AuthResult(TRUE, {ChatCompletion, ModelsList}, None)
           [] cred.kind = "jwt_invalid" -> AuthResult(FALSE, {}, "Invalid JWT token")
           [] cred.kind = "jwt_expired" -> AuthResult(FALSE, {}, "Token expired")
           [] cred.kind = "jwt" -> AuthResult(TRUE, cred.permissions, None)
           [] OTHER -> AuthResult(FALSE, {}, "Authentication failed")

\* authorize_action with a wildcard check that ignores the namespace: any
\* "ns:*" permission authorizes any action.
authorize_action_any_wildcard(requireAuth, result, action) ==
    IF ~requireAuth THEN TRUE
    ELSE IF ~result.authenticated THEN FALSE
    ELSE IF action \in result.permissions THEN TRUE
    ELSE IF \E p \in result.permissions : Len(p) = 2 /\ p[2] = "*" THEN TRUE
    ELSE FALSE

authorize_action(requireAuth, result, action) ==
    IF ~requireAuth THEN TRUE
    ELSE IF ~result.authenticated THEN FALSE
    ELSE IF action \in result.permissions THEN TRUE
    ELSE IF Len(action) > 1 /\ <<action[1], "*">> \in result.permissions THEN TRUE
    ELSE IF <<"admin", "*">> \in result.permissions THEN TRUE
    ELSE FALSE

\* ------------------------------------------------------------- exceptions
Exception(cls, status_code, error_type, message) ==
    [cls |-> cls, status_code |-> status_code, error_type |-> error_type,
     message |-> message]

NoException == Exception("none", 0, Absent, "")

ProxyError(message, error_type, status_code) ==
    Exception("ProxyError", status_code, error_type, message)

BedrockAPIError(message, status_code, error_type) ==
    Exception("BedrockAPIError", status_code, error_type, message)

\* create_auth_error without its else branch: every failure is a 401.
create_auth_error_always_401(result) ==
    ProxyError(IF result.error_message \in {None, Absent, ""}
               THEN "Authentication required" ELSE result.error_message,
               "authentication_error", 401)

create_auth_error(result) ==
    IF ~result.authenticated
    THEN ProxyError(IF result.error_message \in {None, Absent, ""}
                    THEN "Authentication required" ELSE result.error_message,
                    "authentication_error", 401)
    ELSE ProxyError("Insufficient permissions", "authorization_error", 403)

\* ---------------------------------------------------------- request body
Message(role, content) ==
    [is_dict |-> TRUE, role |-> role, content |-> content]

Body ==
    [falsy |-> FALSE, is_dict |-> TRUE, model |-> "gpt-4o-mini",
     messages_kind |-> "list", messages |-> <<Message("user", "Hello")>>,
     temperature |-> Absent, temperature_tenths |-> 0,
     max_tokens |-> Absent, max_tokens_value |-> 0,
     top_p |-> Absent, top_p_tenths |-> 0,
     stream |-> FALSE]

\* The parsed bodies the model draws from: temperature, max_tokens and top_p
\* are Absent, "number" (the value is in the field next to it; for max_tokens
\* an integer), "bool" (JSON true or false, which Python counts as the int 1
\* or 0, held in the field next to it), or any other kind (a JSON value that
\* is no such number: "float" for a max_tokens with a fraction, "other").
Bodies ==
    { Body,
      [Body EXCEPT !.stream = TRUE, !.model = "my-custom-model",
                   !.messages = <<Message("system", "Be terse"), Message("user", "Hi")>>,
                   !.temperature = "number", !.temperature_tenths = 8],
      [Body EXCEPT !.stream = TRUE],
      [Body EXCEPT !.model = ""],
      [Body EXCEPT !.model = Absent],
      [Body EXCEPT !.messages_kind = Absent, !.messages = <<>>],
      [Body EXCEPT !.messages = <<>>],
      [Body EXCEPT !.messages = <<Message("tool", "x")>>],
      [Body EXCEPT !.temperature = "number", !.temperature_tenths = 25],
      [Body EXCEPT !.stream = TRUE, !.max_tokens = "number", !.max_tokens_value = 0],
      [Body EXCEPT !.max_tokens = "bool", !.max_tokens_value = 1],
      [Body EXCEPT !.falsy = TRUE, !.model = Absent, !.messages_kind = Absent,
                   !.messages = <<>>] }

\* event['body']: missing or empty, not JSON, or JSON that parses to `body`.
RawBodies ==
    { [kind |-> "missing", body |-> Body], [kind |-> "badjson", body |-> Body] }
    \cup { [kind |-> "json", body |-> b] : b \in Bodies }

Events == [cred : Credentials, raw : RawBodies]

NoEvent == [cred |-> Cred("none", {}), raw |-> [kind |-> "missing", body |-> Body]]

\* None when the body is missing or is no JSON; the parsed value otherwise.
_parse_request_body(ev) ==
    IF ev.raw.kind = "json" THEN [parsed |-> TRUE, body |-> ev.raw.body]
    ELSE [parsed |-> FALSE, body |-> Body]

\* `if not request_body`
RequestBodyIsFalsy(p) == ~p.parsed \/ p.body.falsy

ValidMessage(m) ==
    /\ m.is_dict
    /\ m.role # Absent
    /\ m.content # Absent
    /\ m.role \in {"system", "user", "assistant"}

\* isinstance(value, int) and isinstance(value, (int, float)) for the kinds of
\* value the model tells apart: both hold for a bool, which is an int.
IsInstanceOfInt(kind) == kind \in {"number", "bool"}

_validate_openai_request(b) ==
    IF ~b.is_dict THEN FALSE
    ELSE IF b.model = Absent THEN FALSE
    ELSE IF b.messages_kind = Absent THEN FALSE
    ELSE IF b.messages_kind # "list" \/ Len(b.messages) = 0 THEN FALSE
    ELSE IF \E i \in 1..Len(b.messages) : ~ValidMessage(b.messages[i]) THEN FALSE
    ELSE IF b.temperature # Absent
            /\ (~IsInstanceOfInt(b.temperature) \/ b.temperature_tenths < 0
                \/ b.temperature_tenths > 20) THEN FALSE
    ELSE IF b.max_tokens # Absent
            /\ (~IsInstanceOfInt(b.max_tokens) \/ b.max_tokens_value <= 0) THEN FALSE
    ELSE IF b.top_p # Absent
            /\ (~IsInstanceOfInt(b.top_p) \/ b.top_p_tenths <= 0
                \/ b.top_p_tenths > 10)
         THEN FALSE
    ELSE TRUE

\* ------------------------------------------------- request conversion
\* DEFAULT_MODEL_MAPPINGS, as ConfigManager.get_model_mapping returns it when
\* the secret holds no custom mapping.
NovaLite == "eu.amazon.nova-lite-v1:0"

DEFAULT_MODEL_MAPPINGS ==
    [n \in { "gpt-4o-mini", "gpt-4o", "gpt-3.5-turbo", "gpt-4", "gpt-4-turbo",
             "gpt-4-turbo-preview", "amazon.nova-lite-v1:0", "amazon.nova-pro-v1:0",
             "amazon.nova-micro-v1:0", "eu.amazon.nova-lite-v1:0",
             "eu.amazon.nova-pro-v1:0", "eu.amazon.nova-micro-v1:0" } |-> NovaLite]

\* convert_model_name that falls back on the default backend model for a
\* name the table does not have.
convert_model_name_defaulting(model_mappings, openai_model) ==
    IF openai_model \in DOMAIN model_mappings THEN model_mappings[openai_model]
    ELSE NovaLite

convert_model_name(model_mappings, openai_model) ==
    IF openai_model \in DOMAIN model_mappings THEN model_mappings[openai_model]
    ELSE openai_model

MapSeq(s, F(_)) == [i \in 1..Len(s) |-> F(s[i])]

IsNotSystem(m) == m.role # "system"
IsConvertible(m) == m.role \in {"user", "assistant"}

\* A user string becomes one text block; an assistant message keeps its text
\* only when it is non-empty.
ConvertMessage(m) ==
    [role |-> m.role,
     content |-> IF m.role = "assistant" /\ m.content \in {"", None, Absent}
                 THEN <<>> ELSE <<m.content>>]

_convert_messages_openai_to_bedrock(openai_messages) ==
    MapSeq(SelectSeq(openai_messages, IsConvertible), ConvertMessage)

IsSystemWithContent(m) == m.role = "system" /\ m.content \notin {"", None, Absent}
TextOf(m) == m.content

\* _extract_system_messages that keeps the first system prompt only.
_extract_system_messages_first_only(openai_messages) ==
    LET prompts == MapSeq(SelectSeq(openai_messages, IsSystemWithContent), TextOf)
    IN IF prompts = <<>> THEN <<>> ELSE <<prompts[1]>>

_extract_system_messages(openai_messages) ==
    MapSeq(SelectSeq(openai_messages, IsSystemWithContent), TextOf)

NoRequest == [modelId |-> Absent, messages |-> <<>>, system |-> <<>>,
              temperature_tenths |-> -1, maxTokens |-> -1, topP_tenths |-> -1]

\* raises: the ValueError of openai_to_bedrock_request; value: the request.
openai_to_bedrock_request(model_mappings, b) ==
    IF b.model \in {Absent, None, ""}
    THEN [raises |-> TRUE, value |-> NoRequest]
    ELSE [raises |-> FALSE,
          value |-> [modelId |-> convert_model_name(model_mappings, b.model),
                     messages |-> _convert_messages_openai_to_bedrock(b.messages),
                     system |-> _extract_system_messages(b.messages),
                     temperature_tenths |->
                         IF b.temperature = Absent THEN -1 ELSE b.temperature_tenths,
                     maxTokens |->
                         IF b.max_tokens = Absent THEN -1 ELSE b.max_tokens_value,
                     topP_tenths |->
                         IF b.top_p = Absent THEN -1 ELSE b.top_p_tenths]]

\* ------------------------------------------------------ backend replies
Usage(inputTokens, outputTokens, totalTokens) ==
    [inputTokens |-> inputTokens, outputTokens |-> outputTokens,
     totalTokens |-> totalTokens]

\* A reply of the Converse API. output and usage are "dict", Absent (the key
\* is missing) or None (present but no dict); the fields next to them hold
\* the dict's content.
Reply(output, texts, stopReason, usage, counts) ==
    [output |-> output, texts |-> texts, stopReason |-> stopReason,
     usage |-> usage, counts |-> counts]

NoReply == Reply(Absent, <<>>, Absent, Absent, Usage(0, 0, 0))

BedrockResponses ==
    { Reply("dict", <<"Hi">>, "end_turn", "dict", Usage(3, 2, 5)),
      Reply("dict", <<"Hi", "there">>, "max_tokens", "dict", Usage(4, 4, 8)),
      Reply("dict", <<>>, "tool_use", "dict", Usage(1, 0, 1)),
      Reply("dict", <<"Hi">>, "guardrail_intervened", Absent, Usage(0, 0, 0)),
      Reply(Absent, <<>>, Absent, "dict", Usage(2, 0, 2)),
      Reply(None, <<>>, "end_turn", "dict", Usage(2, 0, 2)),
      Reply("dict", <<"Hi">>, "end_turn", None, Usage(0, 0, 0)) }

\* What a call of the boto3 client ends with when it does not return: a
\* ClientError carrying the service's error code and HTTP status, a
\* BotoCoreError raised inside the SDK (read or connect timeout, no
\* endpoint), or any other exception.
Failure(kind, code, http, text) ==
    [kind |-> kind, code |-> code, http |-> http, text |-> text]

ClientErrors ==
    { Failure("ClientError", "ValidationException", 400, "Malformed input request"),
      Failure("ClientError", "AccessDeniedException", 403, "Access denied"),
      Failure("ClientError", "ThrottlingException", 429, "Rate limit exceeded"),
      Failure("ClientError", "ModelNotReadyException", 429, "Model not ready"),
      Failure("ClientError", "InternalServerException", 500, "Internal failure"),
      Failure("ClientError", "ServiceQuotaExceededException", 400, "Quota exceeded"),
      Failure("ClientError", "ResourceNotFoundException", 404, "Model not found"),
      Failure("ClientError", "ModelTimeoutException", 408, "Model timed out") }

SdkErrors ==
    { Failure("BotoCoreError", "ReadTimeoutError", 0, "Read timeout on endpoint URL"),
      Failure("BotoCoreError", "EndpointConnectionError", 0, "Could not connect") }

OtherErrors ==
    { Failure("Exception", "TimeoutError", 0, "timed out"),
      Failure("Exception", "KeyError", 0, "'ResponseMetadata'") }

BackendFailures == ClientErrors \cup SdkErrors \cup OtherErrors

IsTimeout(f) == f.code \in {"ReadTimeoutError", "TimeoutError"}

\* BedrockClient.converse, lines 91-98.
error_type_mapping(error_code) ==
    CASE error_code = "ValidationException" -> "invalid_request_error"
      [] error_code = "AccessDeniedException" -> "authentication_error"
      [] error_code = "ThrottlingException" -> "rate_limit_error"
      [] error_code = "ModelNotReadyException" -> "model_error"
      [] error_code = "InternalServerException" -> "server_error"
      [] error_code = "ServiceQuotaExceededException" -> "quota_exceeded_error"
      [] OTHER -> "api_error"

\* The BedrockAPIError converse raises for a failure of the boto3 call.
converse_error(f) ==
    CASE f.kind = "ClientError" ->
            BedrockAPIError(f.text, f.http, error_type_mapping(f.code))
      [] f.kind = "BotoCoreError" ->
            BedrockAPIError("AWS SDK error: " \o f.text, 500, "connection_error")
      [] OTHER ->
            BedrockAPIError("Unexpected error: " \o f.text, 500, "internal_error")

\* The BedrockAPIError converse_stream raises while the stream is read.
converse_stream_error(f) ==
    CASE f.kind = "ClientError" -> BedrockAPIError(f.text, f.http, "streaming_error")
      [] OTHER -> BedrockAPIError("Streaming error: " \o f.text, 500, "streaming_error")

\* ----------------------------------------------------- response conversion
\* _convert_bedrock_stop_reason that hands on a stop reason the table does
\* not have.
_convert_bedrock_stop_reason_passthrough(stop_reason) ==
    CASE stop_reason = "end_turn" -> "stop"
      [] stop_reason = "tool_use" -> "tool_calls"
      [] stop_reason = "max_tokens" -> "length"
      [] stop_reason = "stop_sequence" -> "stop"
      [] stop_reason = "content_filtered" -> "content_filter"
      [] OTHER -> stop_reason

_convert_bedrock_stop_reason(stop_reason) ==
    CASE stop_reason = "end_turn" -> "stop"
      [] stop_reason = "tool_use" -> "tool_calls"
      [] stop_reason = "max_tokens" -> "length"
      [] stop_reason = "stop_sequence" -> "stop"
      [] stop_reason = "content_filtered" -> "content_filter"
      [] OTHER -> "stop"

OpenAIUsage(prompt, completion, total) ==
    [prompt_tokens |-> prompt, completion_tokens |-> completion,
     total_tokens |-> total]

\* usage.get(key, 0): a count of -1 stands for a key the dict does not have.
get_or_0(count) == IF count < 0 THEN 0 ELSE count

\* usage.get(key, 0) on each count: kind Absent is the empty dict.
_convert_bedrock_usage_to_openai(kind, counts) ==
    IF kind = "dict"
    THEN OpenAIUsage(get_or_0(counts.inputTokens), get_or_0(counts.outputTokens),
                     get_or_0(counts.totalTokens))
    ELSE OpenAIUsage(0, 0, 0)

RECURSIVE JoinLines(_)
\* '\n'.join(text_parts)
JoinLines(parts) ==
    IF Len(parts) = 0 THEN ""
    ELSE IF Len(parts) = 1 THEN parts[1]
    ELSE parts[1] \o "\n" \o JoinLines(Tail(parts))

\* One entry of 'choices'. A chunk's choice carries 'delta', a response's
\* choice 'message'; role and content of the one not carried are Absent.
Choice(key, role, content, finish_reason) ==
    [index |-> 0, key |-> key, role |-> role, content |-> content,
     finish_reason |-> finish_reason]

_convert_bedrock_message_to_openai_choice(texts, stop_reason) ==
    << Choice("message", "assistant",
              IF Len(texts) > 0 THEN JoinLines(texts) ELSE None,
              _convert_bedrock_stop_reason(stop_reason)) >>

\* The body of a 200 response: id names the generator of the id.
Data(id, object, model, choices, has_usage, usage) ==
    [id |-> id, object |-> object, model |-> model, choices |-> choices,
     has_usage |-> has_usage, usage |-> usage]

NoData == Data(Absent, Absent, Absent, <<>>, FALSE, OpenAIUsage(0, 0, 0))

\* `model or 'gpt-4o-mini'`
ModelOrDefault(model) == IF model \in {None, Absent, ""} THEN "gpt-4o-mini" ELSE model

_create_error_response(error_message, model) ==
    Data("chatcmpl-error", "chat.completion", ModelOrDefault(model),
         << Choice("message", "assistant", "Error: " \o error_message, "stop") >>,
         TRUE, OpenAIUsage(0, 0, 0))

\* str(e) of the exception the try block of bedrock_to_openai_response raises
\* for reply r, None when it raises none. In the order of the code:
\* output.get on an output that is None, message.get on a message that is
\* None (output "message_none"), the loop over a content that is None
\* (output "content_none"), mapping.get on an unhashable stop reason,
\* usage.get on a usage that is None.
ConversionError(r) ==
    IF r.output \in {None, "message_none"}
    THEN "'NoneType' object has no attribute 'get'"
    ELSE IF r.output = "content_none" THEN "'NoneType' object is not iterable"
    ELSE IF r.stopReason = "unhashable" THEN "unhashable type: 'list'"
    ELSE IF r.usage = None THEN "'NoneType' object has no attribute 'get'"
    ELSE None

\* bedrock_to_openai_response with the except block answering like the try
\* block's last line would: a response with no choice.
bedrock_to_openai_response_no_fallback(r, original_model) ==
    IF ConversionError(r) # None
    THEN Data("chatcmpl-nova", "chat.completion", ModelOrDefault(original_model),
              <<>>, FALSE, OpenAIUsage(0, 0, 0))
    ELSE Data("chatcmpl-nova", "chat.completion", ModelOrDefault(original_model),
              _convert_bedrock_message_to_openai_choice(
                  IF r.output = "dict" THEN r.texts ELSE <<>>,
                  IF r.stopReason = Absent THEN "end_turn" ELSE r.stopReason),
              TRUE, _convert_bedrock_usage_to_openai(r.usage, r.counts))

\* The except block (lines 128-131) answers every exception of the try block
\* with the fallback response.
bedrock_to_openai_response(r, original_model) ==
    IF ConversionError(r) # None
    THEN _create_error_response(ConversionError(r), original_model)
    ELSE Data("chatcmpl-nova", "chat.completion", ModelOrDefault(original_model),
              _convert_bedrock_message_to_openai_choice(
                  IF r.output = "dict" THEN r.texts ELSE <<>>,
                  IF r.stopReason = Absent THEN "end_turn" ELSE r.stopReason),
              TRUE, _convert_bedrock_usage_to_openai(r.usage, r.counts))

\* ------------------------------------------------------------ streaming
\* A chunk yielded by converse_stream: its type and the part of its data the
\* handler reads (delta text, stopReason, usage).
Chunk(type, text, stopReason, usage, counts) ==
    [type |-> type, text |-> text, stopReason |-> stopReason, usage |-> usage,
     counts |-> counts]

StreamEvents ==
    { Chunk("message_start", Absent, Absent, Absent, Usage(0, 0, 0)),
      Chunk("content_block_delta", "Hel", Absent, Absent, Usage(0, 0, 0)),
      Chunk("content_block_delta", "lo", Absent, Absent, Usage(0, 0, 0)),
      Chunk("content_block_stop", Absent, Absent, Absent, Usage(0, 0, 0)),
      Chunk("message_stop", Absent, "max_tokens", Absent, Usage(0, 0, 0)),
      Chunk("metadata", Absent, Absent, "dict", Usage(1, 1, 2)),
      Chunk("metadata", Absent, Absent, "dict", Usage(2, 1, 3)),
      Chunk("metadata", Absent, Absent, None, Usage(0, 0, 0)) }

\* Lines 588-612.
_create_error_chunk(error_message, model) ==
    Data("chatcmpl-error", "chat.completion.chunk", ModelOrDefault(model),
         << Choice("delta", "assistant", "Error: " \o error_message, "stop") >>,
         FALSE, OpenAIUsage(0, 0, 0))

\* The except block (lines 200-202) answers the one exception the try block
\* raises for the chunks of the model, mapping.get on an unhashable stop
\* reason, with the error chunk.
convert_streaming_chunk(c, original_model) ==
    LET base == Data("chatcmpl-nova-stream", "chat.completion.chunk",
                     ModelOrDefault(original_model), <<>>, FALSE,
                     OpenAIUsage(0, 0, 0))
    IN CASE c.type = "content_block_delta" ->
              IF c.text # Absent
              THEN [base EXCEPT !.choices = <<Choice("delta", Absent, c.text, None)>>]
              ELSE base
         [] c.type = "message_start" ->
              [base EXCEPT !.choices = <<Choice("delta", "assistant", Absent, None)>>]
         [] c.type = "message_stop" /\ c.stopReason = "unhashable" ->
              _create_error_chunk("unhashable type: 'list'", original_model)
         [] c.type = "message_stop" ->
              [base EXCEPT !.choices =
                  <<Choice("delta", Absent, Absent,
                           _convert_bedrock_stop_reason(
                               IF c.stopReason = Absent THEN "stop" ELSE c.stopReason))>>]
         [] c.type = "metadata" ->
              IF c.usage = "dict"
              THEN [base EXCEPT !.has_usage = TRUE,
                                !.usage = _convert_bedrock_usage_to_openai(c.usage, c.counts)]
              ELSE base
         [] OTHER -> base

\* Lines 890-892: the running total of the tokens the chunks report.
TrackTokens(total, c) ==
    IF c.usage = "dict" THEN total + get_or_0(c.counts.totalTokens) ELSE total

\* Lines 913-918: the first choice's 'delta' is renamed 'message'; its
\* 'finish_reason' key is always present, so the default never applies.
DeltaToMessage(choice) ==
    IF choice.key = "delta" THEN [choice EXCEPT !.key = "message"] ELSE choice

\* FinalStreamResponse without the fallback of lines 921-941: an empty chunk
\* list gives a response with no choice and no usage.
FinalStreamResponseNoFallback(chunks, original_model) ==
    IF Len(chunks) > 0
    THEN LET final_chunk == chunks[Len(chunks)]
         IN IF Len(final_chunk.choices) > 0
            THEN [final_chunk EXCEPT !.choices[1] = DeltaToMessage(@)]
            ELSE final_chunk
    ELSE Data("chatcmpl-request", "chat.completion", original_model, <<>>, FALSE,
              OpenAIUsage(0, 0, 0))

\* Lines 908-941: the response data built once the stream has ended.
FinalStreamResponse(chunks, original_model) ==
    IF Len(chunks) > 0
    THEN LET final_chunk == chunks[Len(chunks)]
         IN IF Len(final_chunk.choices) > 0
            THEN [final_chunk EXCEPT !.choices[1] = DeltaToMessage(@)]
            ELSE final_chunk
    ELSE Data("chatcmpl-request", "chat.completion", original_model,
              << Choice("message", "assistant",
                        "Stream completed but no content received.", "stop") >>,
              TRUE, OpenAIUsage(0, 0, 0))

\* -------------------------------------------------------- error responses
Digit(d) ==
    CASE d = 0 -> "0" [] d = 1 -> "1" [] d = 2 -> "2" [] d = 3 -> "3" [] d = 4 -> "4"
      [] d = 5 -> "5" [] d = 6 -> "6" [] d = 7 -> "7" [] d = 8 -> "8" [] OTHER -> "9"

\* str(status_code) of a three-digit status.
str(n) == Digit(n \div 100) \o Digit((n \div 10) % 10) \o Digit(n % 10)

ErrorBody(message, type, code) == [message |-> message, type |-> type, code |-> code]

NoError == ErrorBody(Absent, Absent, Absent)

\* An API Gateway response: statusCode and the body, which holds either
\* 'error' or the response data.
Response(statusCode, error, data) ==
    [statusCode |-> statusCode, error |-> error, data |-> data]

_create_success_response(data) == Response(200, NoError, data)

ErrorResponse(status_code, message, error_type) ==
    Response(status_code, ErrorBody(message, error_type, str(status_code)), NoData)

\* RequestHandler._handle_bedrock_error, lines 728-737.
error_mapping(error_type) ==
    CASE error_type = "invalid_request_error" -> <<400, "invalid_request_error">>
      [] error_type = "authentication_error" -> <<401, "authentication_error">>
      [] error_type = "rate_limit_error" -> <<429, "rate_limit_error">>
      [] error_type = "model_error" -> <<503, "model_error">>
      [] error_type = "server_error" -> <<500, "server_error">>
      [] error_type = "quota_exceeded_error" -> <<429, "rate_limit_error">>
      [] error_type = "connection_error" -> <<503, "connection_error">>
      [] error_type = "models_error" -> <<503, "server_error">>
      [] OTHER -> <<500, "server_error">>

\* The status code the error carries replaces the table's whenever it is set.
_handle_bedrock_error(error) ==
    LET mapped == error_mapping(error.error_type)
        status_code == IF error.status_code # 0 THEN error.status_code ELSE mapped[1]
    IN ErrorResponse(status_code, error.message, mapped[2])

\* The classes an exception class derives from, itself included, for the
\* classes the model raises; any other class derives from Exception alone.
Bases(cls) ==
    CASE cls = "JSONDecodeError" -> {"JSONDecodeError", "ValueError"}
      [] cls = "ConnectionResetError" -> {"ConnectionResetError", "ConnectionError"}
      [] OTHER -> {cls}

isinstance(exception, cls) == cls \in Bases(exception.cls)

\* ErrorHandler._handle_openai_error, lines 142-157.
openai_error_type_mapping(error_type) ==
    CASE error_type = "invalid_request_error" -> "validation_error"
      [] error_type = "authentication_error" -> "authentication_error"
      [] error_type = "invalid_api_key" -> "authentication_error"
      [] error_type = "permission_error" -> "authorization_error"
      [] error_type = "not_found_error" -> "not_found_error"
      [] error_type = "rate_limit_error" -> "rate_limit_error"
      [] error_type = "api_error" -> "api_error"
      [] error_type = "timeout_error" -> "timeout_error"
      [] error_type = "connection_error" -> "connection_error"
      [] OTHER -> "api_error"

\* handle_exception whose last branch answers with the exception's text.
handle_exception_echoing(exception) ==
    IF isinstance(exception, "ProxyError")
    THEN ErrorResponse(exception.status_code, exception.message, exception.error_type)
    ELSE IF isinstance(exception, "OpenAIAPIError")
    THEN ErrorResponse(IF exception.status_code # 0 THEN exception.status_code ELSE 500,
                       "OpenAI API error: " \o exception.message,
                       openai_error_type_mapping(exception.error_type))
    ELSE IF isinstance(exception, "ValueError")
    THEN ErrorResponse(400, exception.message, "validation_error")
    ELSE IF isinstance(exception, "TimeoutError")
    THEN ErrorResponse(408, "Request timeout", "timeout_error")
    ELSE IF isinstance(exception, "ConnectionError")
    THEN ErrorResponse(503, "Service temporarily unavailable", "connection_error")
    ELSE ErrorResponse(500, exception.message, "internal_error")

\* Lines 93-104: the first isinstance test that holds picks the handler.
handle_exception(exception) ==
    IF isinstance(exception, "ProxyError")
    THEN ErrorResponse(exception.status_code, exception.message, exception.error_type)
    ELSE IF isinstance(exception, "OpenAIAPIError")
    THEN ErrorResponse(IF exception.status_code # 0 THEN exception.status_code ELSE 500,
                       "OpenAI API error: " \o exception.message,
                       openai_error_type_mapping(exception.error_type))
    ELSE IF isinstance(exception, "ValueError")
    THEN ErrorResponse(400, exception.message, "validation_error")
    ELSE IF isinstance(exception, "TimeoutError")
    THEN ErrorResponse(408, "Request timeout", "timeout_error")
    ELSE IF isinstance(exception, "ConnectionError")
    THEN ErrorResponse(503, "Service temporarily unavailable", "connection_error")
    ELSE ErrorResponse(500, "Internal server error", "internal_error")

\* ExceptClause with the second clause narrowed to
\* `except (ProxyError, ValueError)`: any other exception leaves the handler.
ExceptClauseNarrow(exception) ==
    IF exception.cls = "BedrockAPIError" THEN "except_bedrock"
    ELSE IF exception.cls \in {"ProxyError", "ValueError"} THEN "except_exception"
    ELSE "raised"

\* The except clause of handle_chat_completion (lines 194, 207) and of
\* _handle_streaming_response (lines 955, 960) that catches `exception`.
ExceptClause(exception) ==
    IF exception.cls = "BedrockAPIError" THEN "except_bedrock" ELSE "except_exception"

\* ------------------------------------------------------------ the handler
NoFailure == Failure("none", Absent, 0, "")

\* The state between two calls: everything a call holds is discarded.
Fresh ==
    /\ event = NoEvent
    /\ auth_result = NoAuthResult
    /\ request_body = Body
    /\ bedrock_request = NoRequest
    /\ bedrock_response = NoReply
    /\ exc = NoException
    /\ backend_failure = NoFailure
    /\ stream_state = "none"
    /\ streamed = <<>>
    /\ streaming_chunks = <<>>
    /\ total_tokens = 0
    /\ converse_calls = 0
    /\ converse_stream_calls = 0
    /\ stages = <<>>
    /\ responses = <<>>

\* BedrockClient.__init__ (lines 36-38) and ConfigManager.__init__ (lines
\* 26-28): both caches are None. A list cache is None or holds the model
\* ids of 'modelSummaries' and, for reference, the time of the call that
\* fetched them; a timestamp of -1 is None.
NoTimestamp == -1
_cache_ttl == 300

ModelsCache(modelSummaries, fetched_at) ==
    [is_none |-> FALSE, modelSummaries |-> modelSummaries, fetched_at |-> fetched_at]

NoModelsCache == [is_none |-> TRUE, modelSummaries |-> <<>>, fetched_at |-> NoTimestamp]

\* ConfigManager._cached_secret_data: None or the parsed secret, of which the
\* model reads 'model_mappings'.
SecretData(model_mappings) == [is_none |-> FALSE, model_mappings |-> model_mappings]
NoSecretData == [is_none |-> TRUE, model_mappings |-> <<>>]

\* A list_foundation_models call that is not running.
IdleThread ==
    [pc |-> "idle", current_time |-> NoTimestamp, seen_timestamp |-> NoTimestamp,
     fetched |-> NoModelsCache, result |-> NoModelsCache]

Threads == {1, 2}

\* The caches and the clock, which a chat-completion call leaves alone.
ClientState == <<clock, ticks, _models_cache, _cache_timestamp, _cached_api_key,
                 _cached_secret_data, threads>>

\* No function has been called on its own.
NoCall == [fn |-> "none"]
NoResult == [raises |-> FALSE, value |-> Absent]

Init ==
    /\ pc = "idle"
    /\ initialized = FALSE
    /\ require_auth = FALSE
    /\ Fresh
    /\ call = NoCall
    /\ returned = NoResult
    /\ clock = 0
    /\ ticks = 0
    /\ _models_cache = NoModelsCache
    /\ _cache_timestamp = NoTimestamp
    /\ _cached_api_key = None
    /\ _cached_secret_data = NoSecretData
    /\ threads = [t \in Threads |-> IdleThread]

\* What a step of the call leaves alone.
Locals == <<event, auth_result, request_body, bedrock_request, bedrock_response,
            exc, backend_failure, stream_state, streamed, streaming_chunks,
            total_tokens, converse_calls, converse_stream_calls, stages, responses>>

\* `raise exception` inside the try block.
Raise(exception) ==
    /\ exc' = exception
    /\ pc' = ExceptClause(exception)

Done(stage) == stages' = Append(stages, stage)

\* AuthManager.enable_authentication, between two calls.
enable_authentication(enabled) ==
    /\ pc = "idle"
    /\ require_auth' = enabled
    /\ UNCHANGED <<pc, initialized, Locals>>
    /\ UNCHANGED <<call, returned, ClientState>>

\* handle_chat_completion is entered with an event (lines 80-91).
Receive(ev) ==
    /\ pc = "idle"
    /\ event' = ev
    /\ pc' = "initialize"
    /\ UNCHANGED <<initialized, require_auth, auth_result, request_body,
                   bedrock_request, bedrock_response, exc, backend_failure,
                   stream_state, streamed, streaming_chunks, total_tokens,
                   converse_calls, converse_stream_calls, stages, responses>>
    /\ UNCHANGED <<call, returned, ClientState>>

\* self._initialize() (line 93): a no-op once initialized; the first time it
\* succeeds or, when the secret cannot be read, raises RuntimeError.
Initialize(ok) ==
    /\ pc = "initialize"
    /\ IF initialized \/ ok
       THEN /\ initialized' = TRUE
            /\ pc' = "authenticate"
            /\ Done("initialize")
            /\ UNCHANGED exc
       ELSE /\ Raise(Exception("RuntimeError", 0, Absent,
                               "Initialization failed: Failed to retrieve secret"))
            /\ UNCHANGED <<initialized, stages>>
    /\ UNCHANGED <<require_auth, event, auth_result, request_body, bedrock_request,
                   bedrock_response, backend_failure, stream_state, streamed,
                   streaming_chunks, total_tokens, converse_calls,
                   converse_stream_calls, responses>>
    /\ UNCHANGED <<call, returned, ClientState>>

\* Lines 96-98.
Authenticate ==
    /\ pc = "authenticate"
    /\ LET result == authenticate_request(require_auth, event.cred)
       IN /\ auth_result' = result
          /\ IF ~result.authenticated
             THEN Raise(create_auth_error(result)) /\ UNCHANGED stages
             ELSE pc' = "authorize" /\ Done("authenticate") /\ UNCHANGED exc
    /\ UNCHANGED <<initialized, require_auth, event, request_body, bedrock_request,
                   bedrock_response, backend_failure, stream_state, streamed,
                   streaming_chunks, total_tokens, converse_calls,
                   converse_stream_calls, responses>>
    /\ UNCHANGED <<call, returned, ClientState>>

\* Lines 101-102.
Authorize ==
    /\ pc = "authorize"
    /\ IF ~authorize_action(require_auth, auth_result, ChatCompletion)
       THEN Raise(create_auth_error(auth_result)) /\ UNCHANGED stages
       ELSE pc' = "parse" /\ Done("authorize") /\ UNCHANGED exc
    /\ UNCHANGED <<initialized, require_auth, event, auth_result, request_body,
                   bedrock_request, bedrock_response, backend_failure, stream_state,
                   streamed, streaming_chunks, total_tokens, converse_calls,
                   converse_stream_calls, responses>>
    /\ UNCHANGED <<call, returned, ClientState>>

\* Lines 105-111.
ParseBody ==
    /\ pc = "parse"
    /\ LET parsed == _parse_request_body(event)
       IN IF RequestBodyIsFalsy(parsed)
          THEN /\ Raise(ProxyError("Invalid or missing request body",
                                   "validation_error", 400))
               /\ UNCHANGED <<request_body, stages>>
          ELSE /\ request_body' = parsed.body
               /\ pc' = "validate"
               /\ Done("parse")
               /\ UNCHANGED exc
    /\ UNCHANGED <<initialized, require_auth, event, auth_result, bedrock_request,
                   bedrock_response, backend_failure, stream_state, streamed,
                   streaming_chunks, total_tokens, converse_calls,
                   converse_stream_calls, responses>>
    /\ UNCHANGED <<call, returned, ClientState>>

\* Validate with the check of lines 114-119 left out.
ValidateUnchecked ==
    /\ pc = "validate"
    /\ pc' = "convert"
    /\ stages' = Append(stages, "validate")
    /\ UNCHANGED <<initialized, require_auth, event, auth_result, request_body,
                   bedrock_request, bedrock_response, exc, backend_failure,
                   stream_state, streamed, streaming_chunks, total_tokens,
                   converse_calls, converse_stream_calls, responses>>
    /\ UNCHANGED <<call, returned, ClientState>>

\* Lines 114-119.
Validate ==
    /\ pc = "validate"
    /\ IF ~_validate_openai_request(request_body)
       THEN /\ Raise(ProxyError("Invalid OpenAI request format",
                                "validation_error", 400))
            /\ UNCHANGED stages
       ELSE pc' = "convert" /\ Done("validate") /\ UNCHANGED exc
    /\ UNCHANGED <<initialized, require_auth, event, auth_result, request_body,
                   bedrock_request, bedrock_response, backend_failure, stream_state,
                   streamed, streaming_chunks, total_tokens, converse_calls,
                   converse_stream_calls, responses>>
    /\ UNCHANGED <<call, returned, ClientState>>

\* `is_streaming = request_body.get('stream', False)`
is_streaming(b) == b.stream

\* original_model taken from the converted request: the backend's name.
original_model_resolved(b) ==
    IF b.model = Absent THEN "unknown"
    ELSE convert_model_name(DEFAULT_MODEL_MAPPINGS, b.model)

\* `original_model = request_body.get('model', 'unknown')`
original_model(b) == IF b.model = Absent THEN "unknown" ELSE b.model

\* Where line 131 sends a converted request.
BackendCall(b) == IF is_streaming(b) THEN "converse_stream" ELSE "converse"

\* Lines 122-131.
Convert ==
    /\ pc = "convert"
    /\ LET converted == openai_to_bedrock_request(DEFAULT_MODEL_MAPPINGS, request_body)
       IN IF converted.raises
          THEN /\ Raise(Exception("ValueError", 0, Absent,
                     "Request conversion failed: Missing 'model' in OpenAI request"))
               /\ UNCHANGED <<bedrock_request, stages>>
          ELSE /\ bedrock_request' = converted.value
               /\ pc' = BackendCall(request_body)
               /\ Done("convert")
               /\ UNCHANGED exc
    /\ UNCHANGED <<initialized, require_auth, event, auth_result, request_body,
                   bedrock_response, backend_failure, stream_state, streamed,
                   streaming_chunks, total_tokens, converse_calls,
                   converse_stream_calls, responses>>
    /\ UNCHANGED <<call, returned, ClientState>>

\* `return response`: the caller gets it and the call is over.
Respond(response) ==
    /\ responses' = Append(responses, response)
    /\ pc' = "responded"

\* Line 142, the boto3 call returns.
ConverseReturns(r) ==
    /\ pc = "converse"
    /\ converse_calls' = converse_calls + 1
    /\ bedrock_response' = r
    /\ pc' = "convert_back"
    /\ Done("converse")
    /\ UNCHANGED <<initialized, require_auth, event, auth_result, request_body,
                   bedrock_request, exc, backend_failure, stream_state, streamed,
                   streaming_chunks, total_tokens, converse_stream_calls, responses>>
    /\ UNCHANGED <<call, returned, ClientState>>

\* ConverseFails with one retry: the first failure is swallowed and the call
\* is made again.
ConverseFailsRetried(f) ==
    /\ pc = "converse"
    /\ converse_calls' = converse_calls + 1
    /\ backend_failure' = f
    /\ IF converse_calls = 0
       THEN UNCHANGED <<pc, exc>>
       ELSE /\ exc' = converse_error(f)
            /\ pc' = "except_bedrock"
    /\ UNCHANGED <<initialized, require_auth, event, auth_result, request_body,
                   bedrock_request, bedrock_response, stream_state, streamed,
                   streaming_chunks, total_tokens, converse_stream_calls, stages,
                   responses>>
    /\ UNCHANGED <<call, returned, ClientState>>

\* Line 142, the boto3 call fails: BedrockClient.converse raises (lines 83-114).
ConverseFails(f) ==
    /\ pc = "converse"
    /\ converse_calls' = converse_calls + 1
    /\ backend_failure' = f
    /\ Raise(converse_error(f))
    /\ UNCHANGED <<initialized, require_auth, event, auth_result, request_body,
                   bedrock_request, bedrock_response, stream_state, streamed,
                   streaming_chunks, total_tokens, converse_stream_calls, stages,
                   responses>>
    /\ UNCHANGED <<call, returned, ClientState>>

\* Line 146: bedrock_response.get('usage', {}).get('totalTokens', 0) raises
\* AttributeError when 'usage' is present but no dict.
TokensUsedRaises(r) == r.usage = None

\* Lines 143-192: log, convert the reply, record metrics, return 200.
ConvertBack ==
    /\ pc = "convert_back"
    /\ IF TokensUsedRaises(bedrock_response)
       THEN /\ Raise(Exception("AttributeError", 0, Absent,
                               "'NoneType' object has no attribute 'get'"))
            /\ UNCHANGED <<responses, stages>>
       ELSE /\ Respond(_create_success_response(
                   bedrock_to_openai_response(bedrock_response,
                                              original_model(request_body))))
            /\ Done("convert_back")
            /\ UNCHANGED exc
    /\ UNCHANGED <<initialized, require_auth, event, auth_result, request_body,
                   bedrock_request, bedrock_response, backend_failure, stream_state,
                   streamed, streaming_chunks, total_tokens, converse_calls,
                   converse_stream_calls>>
    /\ UNCHANGED <<call, returned, ClientState>>

\* _handle_streaming_response, line 878: converse_stream is called and hands
\* back the generator; nothing has been read yet.
ConverseStream ==
    /\ pc = "converse_stream"
    /\ converse_stream_calls' = converse_stream_calls + 1
    /\ stream_state' = "open"
    /\ pc' = "draining"
    /\ Done("converse_stream")
    /\ UNCHANGED <<initialized, require_auth, event, auth_result, request_body,
                   bedrock_request, bedrock_response, exc, backend_failure, streamed,
                   streaming_chunks, total_tokens, converse_calls, responses>>
    /\ UNCHANGED <<call, returned, ClientState>>

\* Lines 890-892 raise AttributeError on a metadata chunk whose 'usage' is
\* present but no dict.
TrackTokensRaises(c) == c.usage = None

\* One turn of the loop of lines 884-892: the stream yields chunk c.
StreamYield(c) ==
    /\ pc = "draining"
    /\ Len(streamed) < MaxEvents
    /\ streamed' = Append(streamed, c)
    /\ streaming_chunks' =
           Append(streaming_chunks,
                  convert_streaming_chunk(c, original_model(request_body)))
    /\ IF TrackTokensRaises(c)
       THEN /\ Raise(Exception("AttributeError", 0, Absent,
                               "'NoneType' object has no attribute 'get'"))
            /\ stream_state' = "failed"
            /\ UNCHANGED total_tokens
       ELSE /\ total_tokens' = TrackTokens(total_tokens, c)
            /\ UNCHANGED <<pc, exc, stream_state>>
    /\ UNCHANGED <<initialized, require_auth, event, auth_result, request_body,
                   bedrock_request, bedrock_response, backend_failure, converse_calls,
                   converse_stream_calls, stages, responses>>
    /\ UNCHANGED <<call, returned, ClientState>>

\* The stream is exhausted: lines 894-953 build and return the response.
StreamEnd ==
    /\ pc = "draining"
    /\ stream_state' = "ended"
    /\ Respond(_create_success_response(
           FinalStreamResponse(streaming_chunks, original_model(request_body))))
    /\ Done("convert_back")
    /\ UNCHANGED <<initialized, require_auth, event, auth_result, request_body,
                   bedrock_request, bedrock_response, exc, backend_failure, streamed,
                   streaming_chunks, total_tokens, converse_calls,
                   converse_stream_calls>>
    /\ UNCHANGED <<call, returned, ClientState>>

\* The failures the stream is cut short by.
StreamFailures ==
    { f \in BackendFailures :
        f.code \in {"ThrottlingException", "ReadTimeoutError", "KeyError"} }

\* StreamFail with the error swallowed: the loop is left and the chunks
\* collected so far are returned as the response.
StreamFailReturnsPartial(f) ==
    /\ pc = "draining"
    /\ backend_failure' = f
    /\ stream_state' = "failed"
    /\ responses' = Append(responses,
           _create_success_response(
               FinalStreamResponse(streaming_chunks, original_model(request_body))))
    /\ pc' = "responded"
    /\ UNCHANGED <<initialized, require_auth, event, auth_result, request_body,
                   bedrock_request, bedrock_response, exc, streamed, streaming_chunks,
                   total_tokens, converse_calls, converse_stream_calls, stages>>
    /\ UNCHANGED <<call, returned, ClientState>>

\* Reading the stream fails: converse_stream raises (lines 167-182) out of
\* the loop.
StreamFail(f) ==
    /\ pc = "draining"
    /\ backend_failure' = f
    /\ stream_state' = "failed"
    /\ Raise(converse_stream_error(f))
    /\ UNCHANGED <<initialized, require_auth, event, auth_result, request_body,
                   bedrock_request, bedrock_response, streamed, streaming_chunks,
                   total_tokens, converse_calls, converse_stream_calls, stages,
                   responses>>
    /\ UNCHANGED <<call, returned, ClientState>>

\* `except BedrockAPIError` (lines 194-205 and 955-958).
HandleBedrockError ==
    /\ pc = "except_bedrock"
    /\ Respond(_handle_bedrock_error(exc))
    /\ UNCHANGED <<initialized, require_auth, event, auth_result, request_body,
                   bedrock_request, bedrock_response, exc, backend_failure,
                   stream_state, streamed, streaming_chunks, total_tokens,
                   converse_calls, converse_stream_calls, stages>>
    /\ UNCHANGED <<call, returned, ClientState>>

\* `except Exception` (lines 207-222 and 960-977).
HandleException ==
    /\ pc = "except_exception"
    /\ Respond(handle_exception(exc))
    /\ UNCHANGED <<initialized, require_auth, event, auth_result, request_body,
                   bedrock_request, bedrock_response, exc, backend_failure,
                   stream_state, streamed, streaming_chunks, total_tokens,
                   converse_calls, converse_stream_calls, stages>>
    /\ UNCHANGED <<call, returned, ClientState>>

\* Discard with streaming_chunks held by the handler instead of the call:
\* the list outlives the call.
DiscardKeepingChunks ==
    /\ pc' = "idle"
    /\ event' = NoEvent
    /\ auth_result' = NoAuthResult
    /\ request_body' = Body
    /\ bedrock_request' = NoRequest
    /\ bedrock_response' = NoReply
    /\ exc' = NoException
    /\ backend_failure' = NoFailure
    /\ stream_state' = "none"
    /\ streamed' = <<>>
    /\ streaming_chunks' = streaming_chunks
    /\ total_tokens' = 0
    /\ converse_calls' = 0
    /\ converse_stream_calls' = 0
    /\ stages' = <<>>
    /\ responses' = <<>>

\* The locals of the call go with it: event, request_body, streaming_chunks
\* and the others are variables of the function, none is a field of self.
Discard ==
    /\ pc' = "idle"
    /\ event' = NoEvent
    /\ auth_result' = NoAuthResult
    /\ request_body' = Body
    /\ bedrock_request' = NoRequest
    /\ bedrock_response' = NoReply
    /\ exc' = NoException
    /\ backend_failure' = NoFailure
    /\ stream_state' = "none"
    /\ streamed' = <<>>
    /\ streaming_chunks' = <<>>
    /\ total_tokens' = 0
    /\ converse_calls' = 0
    /\ converse_stream_calls' = 0
    /\ stages' = <<>>
    /\ responses' = <<>>

\* The call is over (it returned, or an exception left it): its locals go.
Return ==
    /\ pc \in {"responded", "raised"}
    /\ Discard
    /\ UNCHANGED <<initialized, require_auth>>
    /\ UNCHANGED <<call, returned, ClientState>>

Next ==
    \/ \E enabled \in BOOLEAN : enable_authentication(enabled)
    \/ \E ev \in Events : Receive(ev)
    \/ \E ok \in BOOLEAN : Initialize(ok)
    \/ Authenticate
    \/ Authorize
    \/ ParseBody
    \/ Validate
    \/ Convert
    \/ \E r \in BedrockResponses : ConverseReturns(r)
    \/ \E f \in BackendFailures : ConverseFails(f)
    \/ ConvertBack
    \/ ConverseStream
    \/ \E c \in StreamEvents : StreamYield(c)
    \/ StreamEnd
    \/ \E f \in StreamFailures : StreamFail(f)
    \/ HandleBedrockError
    \/ HandleException
    \/ Return

Spec == Init /\ [][Next]_vars

\* ------------------------------------------- functions called on their own
\* The handler's state, which a function called on its own leaves alone.
HandlerState == <<pc, initialized, require_auth, Locals>>

\* The value a call hands back.
Returns(value) == [raises |-> FALSE, value |-> value]

\* The replies bedrock_to_openai_response is called with.
MaxCount == 2

\* The stop reasons of a reply or of a messageStop event: missing, null, the
\* five of the table, one the table does not have, and a list.
StopReasons ==
    {Absent, None, "end_turn", "tool_use", "max_tokens", "stop_sequence",
     "content_filtered", "bogus", "unhashable"}

AnyReplies ==
    { Reply(output, texts, stopReason, usage, Usage(n, n, 2 * n)) :
        output \in {"dict", Absent, None, "message_none", "content_none"},
        texts \in {<<>>, <<"Hi">>, <<"Hi", "there">>},
        stopReason \in StopReasons,
        usage \in {"dict", Absent, None},
        n \in 0..MaxCount }

\* Replies whose usage holds any counts, each of them possibly missing.
AnyUsageReplies ==
    { Reply("dict", <<"Hi">>, "end_turn", "dict", Usage(i, o, t)) :
        i \in -1..MaxCount, o \in -1..MaxCount, t \in -1..MaxCount }

ModelNames == {None, "", "gpt-4o-mini", "my-custom-model"}

\* bedrock_to_openai_response(bedrock_response, original_model)
CallBedrockToOpenai(r, model) ==
    /\ call = NoCall
    /\ call' = [fn |-> "bedrock_to_openai_response", r |-> r, model |-> model]
    /\ returned' = Returns(bedrock_to_openai_response(r, model))
    /\ UNCHANGED <<HandlerState, ClientState>>

\* The actions and permissions authorize_action is called with: "ns:name" as
\* <<ns, name>>, an action without a namespace as <<name>>.
Actions == {ChatCompletion, ModelsList, <<"health">>, <<"chat", "completion", "v2">>}

Permissions ==
    {ChatCompletion, ModelsList, <<"health">>, <<"chat", "*">>, <<"models", "*">>,
     <<"health", "*">>, <<"admin", "*">>}

\* authorize_action(auth_result, action)
CallAuthorizeAction(requireAuth, authResult, action) ==
    /\ call = NoCall
    /\ call' = [fn |-> "authorize_action", require_auth |-> requireAuth,
                auth_result |-> authResult, action |-> action]
    /\ returned' = Returns(authorize_action(requireAuth, authResult, action))
    /\ UNCHANGED <<HandlerState, ClientState>>

\* The requests openai_to_bedrock_request is called with: a model that is
\* missing, null, empty, mapped or unmapped, and no 'messages' key or a list
\* of up to MaxMessages of the sample messages.
MaxMessages == 3

SampleMessages ==
    { Message("system", "Be terse"), Message("system", "Be kind"),
      Message("system", ""), Message("user", "Hi"), Message("user", "Bye"),
      Message("assistant", "Hello"), Message("assistant", ""),
      Message("tool", "42") }

MessageLists == UNION { [1..n -> SampleMessages] : n \in 0..MaxMessages }

AnyRequests ==
    { [Body EXCEPT !.model = model, !.messages = messages] :
        model \in {Absent, None, "", "gpt-4o-mini", "my-custom-model"},
        messages \in MessageLists }
    \cup { [Body EXCEPT !.model = model, !.messages_kind = Absent, !.messages = <<>>] :
             model \in {Absent, "gpt-4o-mini"} }

\* openai_to_bedrock_request(openai_request)
CallOpenaiToBedrock(b) ==
    /\ call = NoCall
    /\ call' = [fn |-> "openai_to_bedrock_request", b |-> b]
    /\ returned' = openai_to_bedrock_request(DEFAULT_MODEL_MAPPINGS, b)
    /\ UNCHANGED <<HandlerState, ClientState>>

\* The exceptions handle_exception is called with. A status_code of 0 is
\* None.
ExceptionTexts == {"boom", "Traceback: secret_arn"}

AnyExceptions ==
    { ProxyError(m, t, status) :
        m \in ExceptionTexts,
        t \in {"validation_error", "authentication_error", "authorization_error",
               "internal_error"},
        status \in {400, 401, 403, 500} }
    \cup { Exception("OpenAIAPIError", status, t, m) :
             status \in {0, 429, 502},
             t \in {None, "rate_limit_error", "invalid_api_key", "insufficient_quota"},
             m \in ExceptionTexts }
    \cup { Exception(cls, 0, Absent, m) :
             cls \in {"ValueError", "JSONDecodeError", "TimeoutError", "ConnectionError",
                      "ConnectionResetError", "RuntimeError", "KeyError",
                      "AttributeError", "Exception"},
             m \in ExceptionTexts }
    \cup { BedrockAPIError(m, status, "rate_limit_error") :
             m \in ExceptionTexts, status \in {0, 429} }

\* ErrorHandler.handle_exception(exception)
CallHandleException(e) ==
    /\ call = NoCall
    /\ call' = [fn |-> "handle_exception", exception |-> e]
    /\ returned' = Returns(handle_exception(e))
    /\ UNCHANGED <<HandlerState, ClientState>>

\* A mapping table is a dict: its items in insertion order, each key once.
MaxTable == 2

TableNames == {"gpt-4o-mini", "gpt-4o", "amazon.nova-lite-v1:0"}
TableIds == {"amazon.nova-lite-v1:0", "amazon.nova-pro-v1:0"}

HasDistinctKeys(items) ==
    \A i, j \in 1..Len(items) : items[i][1] = items[j][1] => i = j

Tables ==
    { items \in UNION { [1..n -> TableNames \X TableIds] : n \in 0..MaxTable } :
        HasDistinctKeys(items) }

Keys(items) == { items[i][1] : i \in 1..Len(items) }
AsDict(items) ==
    [k \in Keys(items) |-> items[CHOOSE i \in 1..Len(items) : items[i][1] = k][2]]

\* BedrockFormatConverter.__init__: `model_mappings or {...}`, an empty
\* table included.
ConverterDefaults ==
    << <<"gpt-4o-mini", "amazon.nova-lite-v1:0">>,
       <<"gpt-4o", "amazon.nova-pro-v1:0">>,
       <<"gpt-3.5-turbo", "amazon.nova-micro-v1:0">>,
       <<"amazon.nova-lite-v1:0", "amazon.nova-lite-v1:0">>,
       <<"amazon.nova-pro-v1:0", "amazon.nova-pro-v1:0">>,
       <<"amazon.nova-micro-v1:0", "amazon.nova-micro-v1:0">> >>

model_mappings_of(items) == IF items = <<>> THEN ConverterDefaults ELSE items

\* bedrock_models_to_openai_format, lines 628-632: the first client name, in
\* the order of the table, of every backend id.
reverse_mapping(items) ==
    [id \in { items[i][2] : i \in 1..Len(items) } |->
        items[CHOOSE i \in 1..Len(items) :
                 /\ items[i][2] = id
                 /\ \A j \in 1..(i - 1) : items[j][2] # id][1]]

\* Line 640: `display_id = reverse_mapping.get(model_id, model_id)`
display_id(items, model_id) ==
    IF model_id \in DOMAIN reverse_mapping(items) THEN reverse_mapping(items)[model_id]
    ELSE model_id

\* The names a model is asked for by: those of the tables and one of none.
AskedNames == TableNames \cup {"gpt-3.5-turbo", "my-custom-model"}

\* convert_model_name(openai_model) of a converter built with the table,
\* and the id under which bedrock_models_to_openai_format lists the result.
CallConvertModelName(items, openai_model) ==
    /\ call = NoCall
    /\ call' = [fn |-> "convert_model_name", model_mappings |-> items,
                openai_model |-> openai_model]
    /\ LET table == model_mappings_of(items)
           bedrock_model == convert_model_name(AsDict(table), openai_model)
       IN returned' = Returns([bedrock_model |-> bedrock_model,
                               display_id |-> display_id(table, bedrock_model)])
    /\ UNCHANGED <<HandlerState, ClientState>>

\* The chunks convert_streaming_chunk is called with.
AnyChunks ==
    StreamEvents
    \cup { Chunk("message_stop", Absent, stopReason, Absent, Usage(0, 0, 0)) :
             stopReason \in StopReasons }

\* convert_streaming_chunk(bedrock_chunk, original_model)
CallConvertStreamingChunk(c, model) ==
    /\ call = NoCall
    /\ call' = [fn |-> "convert_streaming_chunk", c |-> c, model |-> model]
    /\ returned' = Returns(convert_streaming_chunk(c, model))
    /\ UNCHANGED <<HandlerState, ClientState>>

NextFunctions ==
    \/ \E r \in AnyReplies \cup AnyUsageReplies, model \in ModelNames :
          CallBedrockToOpenai(r, model)
    \/ \E c \in AnyChunks, model \in ModelNames : CallConvertStreamingChunk(c, model)
    \/ \E e \in AnyExceptions : CallHandleException(e)
    \/ \E items \in Tables, name \in AskedNames : CallConvertModelName(items, name)
    \/ \E b \in AnyRequests : CallOpenaiToBedrock(b)
    \/ \E requireAuth \in BOOLEAN, authenticated \in BOOLEAN,
          permissions \in SUBSET Permissions, action \in Actions :
            CallAuthorizeAction(requireAuth,
                                AuthResult(authenticated, permissions, None), action)

SpecFunctions == Init /\ [][NextFunctions]_vars

\* ------------------------------------------------ the secret and its cache
\* What Secrets Manager answers get_secret_value with: a secret with a key
\* ("ok"), a secret without 'openai_api_key' ("no_key"), an empty
\* SecretString ("empty"), a string that is no JSON ("bad_json"), or a
\* ClientError ("client_error").
Secret(kind, openai_api_key, model_mappings) ==
    [kind |-> kind, openai_api_key |-> openai_api_key,
     model_mappings |-> model_mappings]

CustomMappings ==
    << <<"gpt-4o", "amazon.nova-pro-v1:0">>, <<"my-alias", "amazon.nova-pro-v1:0">> >>

Secrets ==
    { Secret("ok", "sk-1", <<>>), Secret("ok", "sk-2", CustomMappings),
      Secret("no_key", None, CustomMappings), Secret("empty", None, <<>>),
      Secret("bad_json", None, <<>>), Secret("client_error", None, <<>>) }

\* The RuntimeError get_openai_api_key raises for the secret (lines 66-99);
\* the ones raised inside the try block are wrapped by `except Exception`.
secret_error(secret) ==
    Exception("RuntimeError", 0, Absent,
        CASE secret.kind = "empty" -> "Unexpected error: Secret value is empty"
          [] secret.kind = "bad_json" ->
               "Unexpected error: Invalid JSON in secret: Expecting value"
          [] secret.kind = "no_key" ->
               "Unexpected error: openai_api_key not found in secret"
          [] OTHER -> "Failed to retrieve secret: Access denied")

\* What a ConfigManager call hands back: the value or the exception, the two
\* cache fields after it, and whether it called get_secret_value.
ConfigResult(raises, value, exception, api_key, secret_data, contacted) ==
    [raises |-> raises, value |-> value, exception |-> exception,
     api_key |-> api_key, secret_data |-> secret_data, contacted |-> contacted]

\* get_openai_api_key that reads the secret again on every call.
get_openai_api_key_uncached(api_key, secret_data, secret) ==
    IF secret.kind = "ok"
    THEN ConfigResult(FALSE, secret.openai_api_key, NoException,
                      secret.openai_api_key, SecretData(secret.model_mappings), TRUE)
    ELSE ConfigResult(TRUE, None, secret_error(secret), api_key, secret_data, TRUE)

\* ConfigManager.get_openai_api_key, lines 51-99, with the secret ARN set.
get_openai_api_key(api_key, secret_data, secret) ==
    IF api_key # None
    THEN ConfigResult(FALSE, api_key, NoException, api_key, secret_data, FALSE)
    ELSE CASE secret.kind = "ok" ->
                ConfigResult(FALSE, secret.openai_api_key, NoException,
                             secret.openai_api_key,
                             SecretData(secret.model_mappings), TRUE)
           [] secret.kind = "no_key" ->
                ConfigResult(TRUE, None, secret_error(secret), api_key,
                             SecretData(secret.model_mappings), TRUE)
           [] OTHER ->
                ConfigResult(TRUE, None, secret_error(secret), api_key,
                             secret_data, TRUE)

\* config.DEFAULT_MODEL_MAPPINGS in the order of its items.
DefaultMappingItems ==
    << <<"gpt-4o-mini", NovaLite>>, <<"gpt-4o", NovaLite>>,
       <<"gpt-3.5-turbo", NovaLite>>, <<"gpt-4", NovaLite>>,
       <<"gpt-4-turbo", NovaLite>>, <<"gpt-4-turbo-preview", NovaLite>>,
       <<"amazon.nova-lite-v1:0", NovaLite>>, <<"amazon.nova-pro-v1:0", NovaLite>>,
       <<"amazon.nova-micro-v1:0", NovaLite>>, <<"eu.amazon.nova-lite-v1:0", NovaLite>>,
       <<"eu.amazon.nova-pro-v1:0", NovaLite>>, <<"eu.amazon.nova-micro-v1:0", NovaLite>> >>

IsNewKey(item) == item[1] \notin Keys(DefaultMappingItems)

\* Lines 122-123: the defaults, updated with the custom mappings.
merged_mappings(custom) ==
    [i \in 1..Len(DefaultMappingItems) |->
        IF DefaultMappingItems[i][1] \in Keys(custom)
        THEN <<DefaultMappingItems[i][1], AsDict(custom)[DefaultMappingItems[i][1]]>>
        ELSE DefaultMappingItems[i]]
    \o SelectSeq(custom, IsNewKey)

\* ConfigManager.get_model_mapping, lines 108-130: a secret not read yet is
\* read through get_openai_api_key, whose RuntimeError gives the defaults.
get_model_mapping(api_key, secret_data, secret) ==
    IF secret_data.is_none
    THEN LET read == get_openai_api_key(api_key, secret_data, secret)
         IN IF read.raises
            THEN [read EXCEPT !.raises = FALSE, !.exception = NoException,
                              !.value = DefaultMappingItems]
            ELSE [read EXCEPT !.value = merged_mappings(read.secret_data.model_mappings)]
    ELSE ConfigResult(FALSE, merged_mappings(secret_data.model_mappings), NoException,
                      api_key, secret_data, FALSE)

\* ------------------------------------------------------- the model list
\* The ids of the models the backend has; 'nova' in model_id.lower() holds
\* of those of IsNova.
MaxModels == 2

ModelIds == {"amazon.nova-lite-v1:0", "amazon.nova-pro-v1:0", "anthropic.claude-v2"}
IsNova(model_id) == model_id \in {"amazon.nova-lite-v1:0", "amazon.nova-pro-v1:0"}

HasDistinctIds(ids) == \A i, j \in 1..Len(ids) : ids[i] = ids[j] => i = j

Catalogues ==
    { ids \in UNION { [1..n -> ModelIds] : n \in 0..MaxModels } : HasDistinctIds(ids) }

\* What the boto3 list_foundation_models call does: it returns the
\* modelSummaries or fails.
ListOutcome(kind, modelSummaries, failure) ==
    [kind |-> kind, modelSummaries |-> modelSummaries, failure |-> failure]

ListOutcomes ==
    { ListOutcome("ok", ids, Failure("none", Absent, 0, "")) : ids \in Catalogues }
    \cup { ListOutcome("fails", <<>>, f) :
             f \in { g \in BackendFailures :
                       g.code \in {"AccessDeniedException", "KeyError"} } }

\* Lines 227-242.
list_models_error(f) ==
    IF f.kind = "ClientError" THEN BedrockAPIError(f.text, f.http, "models_error")
    ELSE BedrockAPIError("Models listing error: " \o f.text, 500, "models_error")

\* Lines 196-199.
IsCacheFreshForever(models_cache, cache_timestamp, current_time) ==
    ~models_cache.is_none /\ cache_timestamp # NoTimestamp

IsCacheFresh(models_cache, cache_timestamp, current_time) ==
    /\ ~models_cache.is_none
    /\ cache_timestamp # NoTimestamp
    /\ current_time - cache_timestamp < _cache_ttl

\* What list_foundation_models hands back: the value or the exception, the
\* two cache fields after it, and whether it called the backend.
ListResult(raises, value, exception, models_cache, cache_timestamp, contacted) ==
    [raises |-> raises, value |-> value, exception |-> exception,
     models_cache |-> models_cache, cache_timestamp |-> cache_timestamp,
     contacted |-> contacted]

\* list_foundation_models that answers a failed fetch with the list it has.
list_foundation_models_stale_on_error(models_cache, cache_timestamp, current_time, outcome) ==
    IF IsCacheFresh(models_cache, cache_timestamp, current_time)
    THEN ListResult(FALSE, models_cache, NoException, models_cache, cache_timestamp, FALSE)
    ELSE IF outcome.kind = "ok"
    THEN LET models_response ==
                 ModelsCache(SelectSeq(outcome.modelSummaries, IsNova), current_time)
         IN ListResult(FALSE, models_response, NoException, models_response,
                       current_time, TRUE)
    ELSE IF ~models_cache.is_none
    THEN ListResult(FALSE, models_cache, NoException, models_cache, cache_timestamp, TRUE)
    ELSE ListResult(TRUE, NoModelsCache, list_models_error(outcome.failure),
                    models_cache, cache_timestamp, TRUE)

\* BedrockClient.list_foundation_models, lines 194-242, as one call.
list_foundation_models(models_cache, cache_timestamp, current_time, outcome) ==
    IF IsCacheFresh(models_cache, cache_timestamp, current_time)
    THEN ListResult(FALSE, models_cache, NoException, models_cache, cache_timestamp, FALSE)
    ELSE IF outcome.kind = "ok"
    THEN LET models_response ==
                 ModelsCache(SelectSeq(outcome.modelSummaries, IsNova), current_time)
         IN ListResult(FALSE, models_response, NoException, models_response,
                       current_time, TRUE)
    ELSE ListResult(TRUE, NoModelsCache, list_models_error(outcome.failure),
                    models_cache, cache_timestamp, TRUE)

\* One entry of the 'data' of the models response.
ModelEntry(id, owned_by, root, parent, alias_for) ==
    [id |-> id, object |-> "model", owned_by |-> owned_by, root |-> root,
     parent |-> parent, alias_for |-> alias_for]

BackendEntry(model_id) == ModelEntry(model_id, "amazon", model_id, None, Absent)
AliasEntry(item) == ModelEntry(item[1], "openai-compatible", item[2], item[2], item[2])

ModelsData(entries) == [object |-> "list", data |-> entries]

\* _convert_bedrock_models_to_openai that lists one alias per backend model.
_convert_bedrock_models_to_openai_collapsed(modelSummaries, model_mappings) ==
    LET IsFirstAlias(item) == reverse_mapping(model_mappings)[item[2]] = item[1]
    IN ModelsData(MapSeq(modelSummaries, BackendEntry)
                  \o MapSeq(SelectSeq(model_mappings, IsFirstAlias), AliasEntry))

\* RequestHandler._convert_bedrock_models_to_openai, lines 620-714.
_convert_bedrock_models_to_openai(modelSummaries, model_mappings) ==
    ModelsData(MapSeq(modelSummaries, BackendEntry) \o MapSeq(model_mappings, AliasEntry))

\* RequestHandler._initialize, lines 38-68: nothing once initialized;
\* otherwise the mapping is read, then the key, whose RuntimeError becomes
\* 'Initialization failed'.
_initialize(isInitialized, api_key, secret_data, secret) ==
    IF isInitialized
    THEN ConfigResult(FALSE, None, NoException, api_key, secret_data, FALSE)
    ELSE LET mapping == get_model_mapping(api_key, secret_data, secret)
             key == get_openai_api_key(mapping.api_key, mapping.secret_data, secret)
         IN IF key.raises
            THEN [key EXCEPT !.exception =
                     Exception("RuntimeError", 0, Absent,
                               "Initialization failed: " \o key.exception.message),
                             !.contacted = TRUE]
            ELSE [key EXCEPT !.contacted = mapping.contacted \/ key.contacted]

\* Time passes between two calls, a second at least; the record of the last
\* call is dropped.
MaxTicks == 2

TickSteps == {1, _cache_ttl - 1}

Tick(d) ==
    /\ ticks < MaxTicks
    /\ ticks' = ticks + 1
    /\ clock' = clock + d
    /\ call' = NoCall
    /\ returned' = NoResult
    /\ UNCHANGED <<HandlerState, _models_cache, _cache_timestamp, _cached_api_key,
                   _cached_secret_data, threads>>

\* bedrock_client.list_foundation_models() called on its own.
CallListFoundationModels(outcome) ==
    /\ pc = "idle"
    /\ call = NoCall
    /\ LET listed == list_foundation_models(_models_cache, _cache_timestamp, clock,
                                            outcome)
       IN /\ call' = [fn |-> "list_foundation_models", current_time |-> clock,
                      models_cache |-> _models_cache,
                      cache_timestamp |-> _cache_timestamp, outcome |-> outcome]
          /\ returned' = [raises |-> listed.raises,
                          value |-> IF listed.raises THEN listed.exception
                                    ELSE listed.value,
                          contacted |-> listed.contacted]
          /\ _models_cache' = listed.models_cache
          /\ _cache_timestamp' = listed.cache_timestamp
    /\ UNCHANGED <<HandlerState, clock, ticks, _cached_api_key, _cached_secret_data,
                   threads>>

\* The credentials the models list is asked for with.
ListCredentials ==
    { Cred("none", {}), Cred("api_key", {}), Cred("jwt", {<<"chat", "*">>}) }

\* The secrets the store holds while the models list is asked for.
ListSecrets == { s \in Secrets : s.kind \in {"ok", "client_error"} }

\* RequestHandler.handle_models_list, lines 234-338, as one call. A handler
\* that initializes gets a new BedrockClient, whose cache is None.
handle_models_list(cred, secret, outcome) ==
    /\ pc = "idle"
    /\ call = NoCall
    /\ LET init == _initialize(initialized, _cached_api_key, _cached_secret_data, secret)
           models_cache == IF initialized THEN _models_cache ELSE NoModelsCache
           cache_timestamp == IF initialized THEN _cache_timestamp ELSE NoTimestamp
           result == authenticate_request(require_auth, cred)
           listed == list_foundation_models(models_cache, cache_timestamp, clock, outcome)
           mapping == get_model_mapping(init.api_key, init.secret_data, secret)
           authorized == /\ ~init.raises
                         /\ result.authenticated
                         /\ authorize_action(require_auth, result, ModelsList)
           response ==
               IF init.raises THEN handle_exception(init.exception)
               ELSE IF ~authorized THEN handle_exception(create_auth_error(result))
               ELSE IF listed.raises THEN _handle_bedrock_error(listed.exception)
               ELSE _create_success_response(
                        _convert_bedrock_models_to_openai(listed.value.modelSummaries,
                                                          mapping.value))
       IN /\ initialized' = ~init.raises
          /\ _cached_api_key' = init.api_key
          /\ _cached_secret_data' = init.secret_data
          /\ _models_cache' = IF authorized THEN listed.models_cache ELSE models_cache
          /\ _cache_timestamp' =
                 IF authorized THEN listed.cache_timestamp ELSE cache_timestamp
          /\ call' = [fn |-> "handle_models_list", cred |-> cred, secret |-> secret,
                      outcome |-> outcome,
                      contacted |-> authorized /\ listed.contacted]
          /\ returned' = Returns(response)
    /\ UNCHANGED <<pc, require_auth, Locals, clock, ticks, threads>>

NextModels ==
    \/ \E d \in TickSteps : Tick(d)
    \/ \E enabled \in BOOLEAN : enable_authentication(enabled)
    \/ \E outcome \in ListOutcomes : CallListFoundationModels(outcome)
    \/ \E cred \in ListCredentials, secret \in ListSecrets, outcome \in ListOutcomes :
          handle_models_list(cred, secret, outcome)

SpecModels == Init /\ [][NextModels]_vars

\* config_manager.get_openai_api_key() called on its own.
CallGetOpenaiApiKey(secret) ==
    /\ pc = "idle"
    /\ LET got == get_openai_api_key(_cached_api_key, _cached_secret_data, secret)
       IN /\ call' = [fn |-> "get_openai_api_key", api_key |-> _cached_api_key,
                      secret |-> secret]
          /\ returned' = [raises |-> got.raises,
                          value |-> IF got.raises THEN got.exception.message
                                    ELSE got.value,
                          contacted |-> got.contacted]
          /\ _cached_api_key' = got.api_key
          /\ _cached_secret_data' = got.secret_data
    /\ UNCHANGED <<HandlerState, clock, ticks, _models_cache, _cache_timestamp, threads>>

\* config_manager.get_model_mapping() called on its own.
CallGetModelMapping(secret) ==
    /\ pc = "idle"
    /\ LET got == get_model_mapping(_cached_api_key, _cached_secret_data, secret)
       IN /\ call' = [fn |-> "get_model_mapping", api_key |-> _cached_api_key,
                      secret |-> secret]
          /\ returned' = [raises |-> got.raises, value |-> got.value,
                          contacted |-> got.contacted]
          /\ _cached_api_key' = got.api_key
          /\ _cached_secret_data' = got.secret_data
    /\ UNCHANGED <<HandlerState, clock, ticks, _models_cache, _cache_timestamp, threads>>

\* config_manager.clear_cache(), lines 182-183.
clear_cache ==
    /\ pc = "idle"
    /\ _cached_api_key' = None
    /\ _cached_secret_data' = NoSecretData
    /\ call' = [fn |-> "clear_cache", api_key |-> _cached_api_key]
    /\ returned' = NoResult
    /\ UNCHANGED <<HandlerState, clock, ticks, _models_cache, _cache_timestamp, threads>>

NextSecrets ==
    \/ \E d \in TickSteps : Tick(d)
    \/ \E secret \in Secrets : CallGetOpenaiApiKey(secret)
    \/ \E secret \in Secrets : CallGetModelMapping(secret)
    \/ clear_cache

SpecSecrets == Init /\ [][NextSecrets]_vars

\* ------------------------------------- list_foundation_models, overlapping
\* BedrockClient takes no lock: calls of list_foundation_models that overlap
\* interleave at the reads and writes of _models_cache and _cache_timestamp.
\* Each call is a thread that goes through the statements of lines 196-225.

\* Line 196: current_time = time.time().
take_current_time(t) ==
    /\ threads[t].pc = "idle"
    /\ threads' = [threads EXCEPT ![t] = [IdleThread EXCEPT !.pc = "check",
                                                            !.current_time = clock]]
    /\ UNCHANGED <<HandlerState, call, returned, clock, ticks, _models_cache,
                   _cache_timestamp, _cached_api_key, _cached_secret_data>>

\* Lines 197-199: the cache check, which reads both fields. Neither field
\* goes back to None, so its reads are taken as one.
check_cache(t) ==
    /\ threads[t].pc = "check"
    /\ threads' = [threads EXCEPT ![t] =
           IF IsCacheFresh(_models_cache, _cache_timestamp, threads[t].current_time)
           THEN [@ EXCEPT !.pc = "return_cached", !.seen_timestamp = _cache_timestamp]
           ELSE [@ EXCEPT !.pc = "fetch"]]
    /\ UNCHANGED <<HandlerState, call, returned, clock, ticks, _models_cache,
                   _cache_timestamp, _cached_api_key, _cached_secret_data>>

\* Line 201: return self._models_cache, read again when returning.
return_cached(t) ==
    /\ threads[t].pc = "return_cached"
    /\ threads' = [threads EXCEPT ![t] = [@ EXCEPT !.pc = "returned",
                                                   !.result = _models_cache]]
    /\ UNCHANGED <<HandlerState, call, returned, clock, ticks, _models_cache,
                   _cache_timestamp, _cached_api_key, _cached_secret_data>>

\* Lines 205-217 and 227-242: the backend is asked; its Nova models become
\* models_response, its failure is raised.
fetch_models(t, outcome) ==
    /\ threads[t].pc = "fetch"
    /\ threads' = [threads EXCEPT ![t] =
           IF outcome.kind = "ok"
           THEN [@ EXCEPT !.pc = "write_models_cache",
                          !.fetched = ModelsCache(SelectSeq(outcome.modelSummaries, IsNova),
                                                  threads[t].current_time)]
           ELSE [@ EXCEPT !.pc = "raised"]]
    /\ UNCHANGED <<HandlerState, call, returned, clock, ticks, _models_cache,
                   _cache_timestamp, _cached_api_key, _cached_secret_data>>

\* Line 220: self._models_cache = models_response.
write_models_cache(t) ==
    /\ threads[t].pc = "write_models_cache"
    /\ _models_cache' = threads[t].fetched
    /\ threads' = [threads EXCEPT ![t] = [@ EXCEPT !.pc = "write_cache_timestamp"]]
    /\ UNCHANGED <<HandlerState, call, returned, clock, ticks, _cache_timestamp,
                   _cached_api_key, _cached_secret_data>>

\* Lines 221-224: self._cache_timestamp = current_time; return models_response.
write_cache_timestamp(t) ==
    /\ threads[t].pc = "write_cache_timestamp"
    /\ _cache_timestamp' = threads[t].current_time
    /\ threads' = [threads EXCEPT ![t] = [@ EXCEPT !.pc = "returned",
                                                   !.result = threads[t].fetched]]
    /\ UNCHANGED <<HandlerState, call, returned, clock, ticks, _models_cache,
                   _cached_api_key, _cached_secret_data>>

\* The caller has its list or its error; the thread is free for a next call.
finish(t) ==
    /\ threads[t].pc \in {"returned", "raised"}
    /\ threads' = [threads EXCEPT ![t] = IdleThread]
    /\ UNCHANGED <<HandlerState, call, returned, clock, ticks, _models_cache,
                   _cache_timestamp, _cached_api_key, _cached_secret_data>>

NextThreads ==
    \/ \E d \in TickSteps : Tick(d)
    \/ \E t \in Threads : take_current_time(t)
    \/ \E t \in Threads : check_cache(t)
    \/ \E t \in Threads : return_cached(t)
    \/ \E t \in Threads, outcome \in ListOutcomes : fetch_models(t, outcome)
    \/ \E t \in Threads : write_models_cache(t)
    \/ \E t \in Threads : write_cache_timestamp(t)
    \/ \E t \in Threads : finish(t)

SpecThreads == Init /\ [][NextThreads]_vars

\* ------------------------------------------- calls of one handler compared
\* Calls of handle_chat_completion on one handler instance, one after the
\* other. `call` remembers one call that is over, with everything it was given
\* (the event, the configuration in force, what the backend did) and
\* `returned` its response; any number of other calls may follow it.
MaxCallsBetween == 1

HistoryCredentials == { Cred("none", {}), Cred("jwt", {<<"chat", "*">>}) }

HistoryBodies ==
    { Body, [Body EXCEPT !.stream = TRUE], [Body EXCEPT !.model = ""] }

HistoryEvents ==
    [cred : HistoryCredentials,
     raw : { [kind |-> "missing", body |-> Body] }
           \cup { [kind |-> "json", body |-> b] : b \in HistoryBodies }]

HistoryReplies ==
    { Reply("dict", <<"Hi">>, "end_turn", "dict", Usage(3, 2, 5)),
      Reply(None, <<>>, "end_turn", "dict", Usage(2, 0, 2)) }

HistoryFailures == { f \in BackendFailures : f.code = "ThrottlingException" }

HistoryStreamEvents ==
    { Chunk("content_block_delta", "Hel", Absent, Absent, Usage(0, 0, 0)),
      Chunk("message_stop", Absent, "max_tokens", Absent, Usage(0, 0, 0)),
      Chunk("metadata", Absent, Absent, None, Usage(0, 0, 0)) }

\* What the call that is about to return was given.
Given ==
    [event |-> event, initialized |-> initialized, require_auth |-> require_auth,
     bedrock_response |-> bedrock_response, backend_failure |-> backend_failure,
     stream_state |-> stream_state, streamed |-> streamed]

\* The call returns. It becomes the call remembered, or the one remembered
\* before stays and has one more call after it.
ReturnRemembered(keep) ==
    /\ pc = "responded"
    /\ Discard
    /\ IF keep /\ call # NoCall
       THEN /\ call' = [call EXCEPT !.calls_since =
                            IF @ < MaxCallsBetween THEN @ + 1 ELSE @]
            /\ UNCHANGED returned
       ELSE /\ call' = [fn |-> "handle_chat_completion", given |-> Given,
                        calls_since |-> 0]
            /\ returned' = Returns(responses[1])
    /\ UNCHANGED <<initialized, require_auth, ClientState>>

NextHistory ==
    \/ \E enabled \in BOOLEAN : enable_authentication(enabled)
    \/ \E ev \in HistoryEvents : Receive(ev)
    \/ \E ok \in BOOLEAN : Initialize(ok)
    \/ Authenticate
    \/ Authorize
    \/ ParseBody
    \/ Validate
    \/ Convert
    \/ \E r \in HistoryReplies : ConverseReturns(r)
    \/ \E f \in HistoryFailures : ConverseFails(f)
    \/ ConvertBack
    \/ ConverseStream
    \/ \E c \in HistoryStreamEvents : StreamYield(c)
    \/ StreamEnd
    \/ \E f \in HistoryFailures : StreamFail(f)
    \/ HandleBedrockError
    \/ HandleException
    \/ \E keep \in BOOLEAN : ReturnRemembered(keep)

SpecHistory == Init /\ [][NextHistory]_vars

\* ---------------------------------------------------------------- claims
StageDone(stage) == \E i \in 1..Len(stages) : stages[i] = stage

BackendCalls == converse_calls + converse_stream_calls

\* The stages that come before the backend call, in the order of the code.
ChecksBeforeBackend ==
    <<"initialize", "authenticate", "authorize", "parse", "validate", "convert">>

\* The event of the call in progress passes authentication, authorization,
\* body parsing and validation.
EventPassesChecks ==
    LET result == authenticate_request(require_auth, event.cred)
        parsed == _parse_request_body(event)
    IN /\ result.authenticated
       /\ authorize_action(require_auth, result, ChatCompletion)
       /\ ~RequestBodyIsFalsy(parsed)
       /\ _validate_openai_request(parsed.body)

C2_NoBackendCallBeforeChecks ==
    BackendCalls > 0 =>
        /\ Len(stages) >= Len(ChecksBeforeBackend)
        /\ SubSeq(stages, 1, Len(ChecksBeforeBackend)) = ChecksBeforeBackend
        /\ EventPassesChecks

\* With authentication required, a request that passed every check has reached
\* converse_stream and its stream is being read.
C2_Witness ==
    /\ require_auth
    /\ converse_stream_calls = 1
    /\ EventPassesChecks
    /\ pc = "draining"

\* C3: for a streaming request nothing is returned while the stream is being
\* read; a response is returned only once the stream has ended (the 200
\* response) or has failed, and after a failure the caller gets an error
\* response with none of the content received so far.
C3_NoPartialStreamResponse ==
    converse_stream_calls > 0 =>
        /\ stream_state = "open" => Len(responses) = 0
        /\ Len(responses) > 0 =>
              \/ /\ stream_state = "ended"
                 /\ responses[1].statusCode = 200
              \/ /\ stream_state = "failed"
                 /\ responses[1].statusCode # 200
                 /\ responses[1].data = NoData

\* The backend failed after a text fragment had been received, and the call
\* has been answered.
C3_Witness ==
    /\ pc = "responded"
    /\ stream_state = "failed"
    /\ backend_failure # NoFailure
    /\ \E i \in 1..Len(streamed) : streamed[i].type = "content_block_delta"

\* C4: per inbound call the backend is invoked at most once: converse only
\* for a request without the stream flag, converse_stream only for a request
\* with it, exactly once for a call that got past conversion, and a failed
\* backend call is not repeated.
C4_BackendInvokedAtMostOnce ==
    /\ BackendCalls <= 1
    /\ converse_calls = 1 => ~is_streaming(request_body)
    /\ converse_stream_calls = 1 => is_streaming(request_body)
    /\ (pc = "responded" /\ StageDone("convert")) => BackendCalls = 1
    /\ backend_failure # NoFailure => BackendCalls = 1

\* A call whose single converse call failed has been answered.
C4_Witness ==
    /\ pc = "responded"
    /\ converse_calls = 1
    /\ backend_failure # NoFailure

\* C5: once converse has returned without raising, the call ends with status
\* 200 whatever the reply holds (missing or malformed output, stop reason or
\* usage).
C5_ReturnedReplyAlways200 ==
    (pc = "responded" /\ StageDone("converse")) => responses[1].statusCode = 200

\* The (status, type) pairs the mapping table of the claim allows for a
\* backend error code.
MappingTable(code) ==
    CASE code = "ValidationException" -> {<<400, "invalid_request_error">>}
      [] code = "AccessDeniedException" ->
            {401, 403} \X {"authentication_error", "authorization_error"}
      [] code = "ThrottlingException" -> {<<429, "rate_limit_error">>}
      [] code = "ModelNotReadyException" -> {<<503, "model_error">>}
      [] code = "InternalServerException" -> {<<500, "server_error">>}
      [] code = "ServiceQuotaExceededException" -> {<<429, "rate_limit_error">>}
      [] OTHER -> {<<500, "server_error">>}

\* C6: a backend error is answered with exactly the (status, type) pair of
\* the mapping table for its backend error code, (500, server_error) for a
\* code outside the table.
C6_BackendErrorMappedByTable ==
    (pc = "responded" /\ backend_failure.kind = "ClientError") =>
        <<responses[1].statusCode, responses[1].error.type>>
            \in MappingTable(backend_failure.code)

\* C7: a backend throttling error yields status 429 and type
\* rate_limit_error, from converse and from converse_stream alike.
C7_ThrottlingIsRateLimitEverywhere ==
    (pc = "responded" /\ backend_failure.code = "ThrottlingException") =>
        /\ responses[1].statusCode = 429
        /\ responses[1].error.type = "rate_limit_error"

\* C8: when the backend invocation times out the call ends with status 408
\* and the backend is not called again.
C8_TimeoutIs408 ==
    (pc = "responded" /\ IsTimeout(backend_failure)) =>
        /\ responses[1].statusCode = 408
        /\ BackendCalls = 1

HasFinishReason(c) == c.type = "message_stop"

\* C9: for a non-empty event sequence that completes without error and holds
\* a chunk with a finish reason, the streaming path returns a non-streaming
\* response (object chat.completion) with exactly one choice, whose delta has
\* become a message and whose finish reason is set, whatever follows that
\* chunk.
C9_FinalResponseFromLastFinishChunk ==
    ( /\ pc = "responded"
      /\ stream_state = "ended"
      /\ \E i \in 1..Len(streamed) : HasFinishReason(streamed[i]) ) =>
        LET data == responses[1].data
        IN /\ data.object = "chat.completion"
           /\ Len(data.choices) = 1
           /\ data.choices[1].key = "message"
           /\ data.choices[1].finish_reason \notin {None, Absent}

RECURSIVE SumOfTotals(_)
\* The sum of the token totals of the Metadata events of a sequence.
SumOfTotals(chunks) ==
    IF Len(chunks) = 0 THEN 0
    ELSE (IF chunks[1].type = "metadata" /\ chunks[1].usage = "dict"
          THEN chunks[1].counts.totalTokens ELSE 0) + SumOfTotals(Tail(chunks))

\* C10: for a non-empty event sequence the usage total of the final
\* streaming response equals the sum of the totals of all Metadata events (a
\* response without usage counts as a total of zero).
C10_UsageTotalIsSumOfMetadata ==
    (pc = "responded" /\ stream_state = "ended" /\ Len(streamed) > 0) =>
        LET data == responses[1].data
        IN (IF data.has_usage THEN data.usage.total_tokens ELSE 0)
               = SumOfTotals(streamed)

\* C11: when the stream ends without having yielded any event the call ends
\* with status 200 and exactly one choice: the assistant placeholder message
\* saying that no content was received, finish reason stop, and prompt,
\* completion and total tokens all zero.
C11_EmptyStreamPlaceholder ==
    (pc = "responded" /\ stream_state = "ended" /\ Len(streamed) = 0) =>
        /\ responses[1].statusCode = 200
        /\ responses[1].data.object = "chat.completion"
        /\ responses[1].data.choices =
              << Choice("message", "assistant",
                        "Stream completed but no content received.", "stop") >>
        /\ responses[1].data.has_usage
        /\ responses[1].data.usage = OpenAIUsage(0, 0, 0)

\* A streaming call whose stream ended at once has been answered.
C11_Witness ==
    /\ pc = "responded"
    /\ converse_stream_calls = 1
    /\ stream_state = "ended"
    /\ streamed = <<>>
    /\ Len(responses) = 1

\* The replies on which the conversion trips: an output, message, content or
\* usage that is None, or a stop reason that cannot be a dict key.
IsInconsistent(r) ==
    \/ r.output \in {None, "message_none", "content_none"}
    \/ r.stopReason = "unhashable"
    \/ r.usage = None

ErrorTexts ==
    { "'NoneType' object has no attribute 'get'",
      "'NoneType' object is not iterable",
      "unhashable type: 'list'" }

\* C12: bedrock_to_openai_response returns for every reply, and for a reply
\* the conversion trips on it returns a response with exactly one choice: an
\* assistant message whose content is "Error: " and the error's text, finish
\* reason stop, usage all zero; a reply it does not trip on is converted.
C12_ConversionNeverRaises ==
    call.fn = "bedrock_to_openai_response" =>
        /\ ~returned.raises
        /\ returned.value.object = "chat.completion"
        /\ Len(returned.value.choices) = 1
        /\ IsInconsistent(call.r) =>
              /\ returned.value.choices[1].key = "message"
              /\ returned.value.choices[1].role = "assistant"
              /\ returned.value.choices[1].content
                     \in { "Error: " \o t : t \in ErrorTexts }
              /\ returned.value.choices[1].finish_reason = "stop"
              /\ returned.value.has_usage
              /\ returned.value.usage = OpenAIUsage(0, 0, 0)
        /\ ~IsInconsistent(call.r) =>
              returned.value.choices[1].content
                  \notin { "Error: " \o t : t \in ErrorTexts }

\* The function was called with a reply whose usage is None and answered
\* with the fallback response.
C12_Witness ==
    /\ call.fn = "bedrock_to_openai_response"
    /\ call.r.output = "dict"
    /\ call.r.usage = None
    /\ returned.value.id = "chatcmpl-error"

\* Credentials that are missing or invalid, and credentials of a valid
\* identity whose permissions do not cover chat:completion.
MissingOrInvalid(cred) ==
    cred.kind \in {"none", "bearer_short", "api_key_bad", "jwt_invalid", "jwt_expired"}

LacksPermission(cred) ==
    /\ cred.kind = "jwt"
    /\ cred.permissions \cap {ChatCompletion, <<"chat", "*">>, <<"admin", "*">>} = {}

\* What the claim C13 expects of the one response of an ended call.
EndsWith(status, type) ==
    /\ responses[1].statusCode = status
    /\ responses[1].error.type = type
    /\ ~StageDone("parse")
    /\ BackendCalls = 0

C14_AuthorizedExactlyByPermission ==
    (call.fn = "authorize_action" /\ call.require_auth) =>
        /\ ~returned.raises
        /\ returned.value =
              ( /\ call.auth_result.authenticated
                /\ \/ call.action \in call.auth_result.permissions
                   \/ /\ Len(call.action) > 1
                      /\ <<call.action[1], "*">> \in call.auth_result.permissions
                   \/ <<"admin", "*">> \in call.auth_result.permissions )

\* chat:completion was refused to an authenticated result that holds only
\* wildcards of other namespaces.
C14_Witness ==
    /\ call.fn = "authorize_action"
    /\ call.require_auth
    /\ call.auth_result.authenticated
    /\ call.auth_result.permissions = {<<"models", "*">>, <<"health", "*">>}
    /\ call.action = ChatCompletion
    /\ returned.value = FALSE

\* The constraints C15 lists, read off the JSON body: a JSON true or false
\* is neither a number in a range nor a positive integer.
ViolatesConstraints(b) ==
    \/ b.model = Absent
    \/ b.messages_kind # "list"
    \/ Len(b.messages) = 0
    \/ \E i \in 1..Len(b.messages) :
          \/ ~b.messages[i].is_dict
          \/ b.messages[i].role = Absent
          \/ b.messages[i].content = Absent
          \/ b.messages[i].role \notin {"system", "user", "assistant"}
    \/ /\ b.temperature # Absent
       /\ (b.temperature # "number" \/ b.temperature_tenths < 0
           \/ b.temperature_tenths > 20)
    \/ /\ b.max_tokens # Absent
       /\ (b.max_tokens # "number" \/ b.max_tokens_value <= 0)
    \/ /\ b.top_p # Absent
       /\ (b.top_p # "number" \/ b.top_p_tenths <= 0 \/ b.top_p_tenths > 10)

\* C15: a call that got past authorization with a JSON body is answered 400
\* before conversion whenever the body violates one of the listed
\* constraints, and passes validation when it violates none.
C15_InvalidBodyRejectedWith400 ==
    (pc = "responded" /\ StageDone("authorize") /\ event.raw.kind = "json") =>
        IF ViolatesConstraints(event.raw.body)
        THEN /\ responses[1].statusCode = 400
             /\ ~StageDone("validate")
             /\ ~StageDone("convert")
        ELSE StageDone("validate")

\* C16: openai_to_bedrock_request raises (ValueError) whenever the request
\* has no model, has no messages field, or has an empty messages list.
C16_ConversionRejectsIncompleteRequest ==
    ( /\ call.fn = "openai_to_bedrock_request"
      /\ \/ call.b.model = Absent
         \/ call.b.messages_kind = Absent
         \/ Len(call.b.messages) = 0 ) => returned.raises

\* The response handle_exception gave is one error response.
IsErrorResponse(r) == r.error # NoError /\ r.data = NoData /\ r.statusCode \in 400..599

\* What C17 says of the four classes it names.
NamedClassesMapped ==
    LET e == call.exception
        r == returned.value
    IN /\ isinstance(e, "ProxyError") =>
              r.statusCode = e.status_code /\ r.error.type = e.error_type
       /\ isinstance(e, "ValueError") => r.statusCode = 400
       /\ isinstance(e, "TimeoutError") => r.statusCode = 408
       /\ isinstance(e, "ConnectionError") => r.statusCode = 503

IsNamedClass(e) ==
    \E cls \in {"ProxyError", "ValueError", "TimeoutError", "ConnectionError"} :
        isinstance(e, cls)

IsGenericError(r) ==
    /\ r.statusCode = 500
    /\ r.error.type = "internal_error"
    /\ r.error.message = "Internal server error"

\* C17 as stated: handle_exception answers every exception with one error
\* response: ValueError 400, TimeoutError 408, ConnectionError 503, a
\* ProxyError its own status and type, and every other exception 500 with
\* type internal_error and the fixed message 'Internal server error'.
C17_HandleExceptionTotal ==
    call.fn = "handle_exception" =>
        /\ ~returned.raises
        /\ IsErrorResponse(returned.value)
        /\ NamedClassesMapped
        /\ ~IsNamedClass(call.exception) => IsGenericError(returned.value)

\* C17 amended: the same, except that an OpenAIAPIError is answered with its
\* own status (500 when it has none), a type mapped from its own, and its
\* message after the prefix 'OpenAI API error: '.
C17_HandleExceptionTotalButOpenAI ==
    call.fn = "handle_exception" =>
        /\ ~returned.raises
        /\ IsErrorResponse(returned.value)
        /\ NamedClassesMapped
        /\ isinstance(call.exception, "OpenAIAPIError") =>
              /\ returned.value.statusCode =
                     (IF call.exception.status_code = 0 THEN 500
                      ELSE call.exception.status_code)
              /\ returned.value.error.message =
                     "OpenAI API error: " \o call.exception.message
        /\ (~IsNamedClass(call.exception)
            /\ ~isinstance(call.exception, "OpenAIAPIError")) =>
               IsGenericError(returned.value)

\* A KeyError, which none of the isinstance tests catches, was answered.
C17_Witness ==
    /\ call.fn = "handle_exception"
    /\ call.exception.cls = "KeyError"
    /\ call.exception.message = "Traceback: secret_arn"
    /\ returned.value.statusCode = 500


\* The formats in which the backend client and the converter put the text of
\* an exception they caught into the message of the one they raise.
MessagePrefixes ==
    {"", "AWS SDK error: ", "Unexpected error: ", "Streaming error: ",
     "Request conversion failed: "}

\* The message carries the text, on its own or after one of the prefixes.
Embeds(message, text) == \E prefix \in MessagePrefixes : message = prefix \o text

\* The backend call ended with an exception the backend did not report:
\* one raised inside the SDK or anywhere else in the client.
UnexpectedBackendFailure == backend_failure.kind \in {"BotoCoreError", "Exception"}

\* C18: when a chat-completion call fails with an unexpected exception of
\* the backend client, the error body sent to the caller does not contain
\* the text of that exception.
C18_NoExceptionTextInErrorBody ==
    (pc = "responded" /\ UnexpectedBackendFailure /\ responses[1].error # NoError) =>
        ~Embeds(responses[1].error.message, backend_failure.text)


\* The roles, in order, of the messages of a list.
RolesOf(messages) == [i \in 1..Len(messages) |-> messages[i].role]

IsSystem(m) == m.role = "system"
IsUserOrAssistant(m) == m.role \in {"user", "assistant"}
HasText(m) == m.content \notin {"", None, Absent}

\* The texts, in order, of the messages of a list that satisfy Test.
TextsOf(messages, Test(_)) ==
    LET chosen == SelectSeq(messages, Test)
    IN [i \in 1..Len(chosen) |-> chosen[i].content]

\* The converted messages are the user and assistant messages of the
\* request, in their order, each with its text when it has one.
KeepsUserAndAssistantOrder(messages, converted) ==
    LET kept == SelectSeq(messages, IsUserOrAssistant)
    IN /\ RolesOf(converted) = RolesOf(kept)
       /\ \A i \in 1..Len(kept) :
            HasText(kept[i]) => converted[i].content = <<kept[i].content>>

Converted == call.fn = "openai_to_bedrock_request" /\ ~returned.raises

\* C19 as stated: openai_to_bedrock_request leaves no system message in the
\* messages array, appends every system message, in order, as a text of the
\* system field, and keeps the user and assistant messages in their order.
C19_SystemMessagesMovedInOrder ==
    Converted =>
        /\ \A i \in 1..Len(returned.value.messages) :
              returned.value.messages[i].role # "system"
        /\ returned.value.system = TextsOf(call.b.messages, IsSystem)
        /\ KeepsUserAndAssistantOrder(call.b.messages, returned.value.messages)

IsSystemWithText(m) == IsSystem(m) /\ HasText(m)

\* C19 amended: the same, except that only the system messages whose
\* content is not empty are appended to the system field; one with empty
\* content is removed and appears nowhere in the request.
C19_NonEmptySystemMessagesMovedInOrder ==
    Converted =>
        /\ \A i \in 1..Len(returned.value.messages) :
              returned.value.messages[i].role # "system"
        /\ returned.value.system = TextsOf(call.b.messages, IsSystemWithText)
        /\ KeepsUserAndAssistantOrder(call.b.messages, returned.value.messages)

\* Two system prompts around a user message were converted: both prompts
\* are in the system field, in their order, and the user message remains.
C19_Witness ==
    /\ Converted
    /\ RolesOf(call.b.messages) = <<"system", "user", "system">>
    /\ returned.value.system = <<"Be terse", "Be kind">>
    /\ RolesOf(returned.value.messages) = <<"user">>


\* The call ended with a successful response.
Succeeded == pc = "responded" /\ responses[1].statusCode = 200

\* C20: a successful chat-completion response, non-streaming, streaming or
\* the converter's fallback, carries in its model field the model name the
\* caller sent, and not the backend name that name was resolved to.
C20_ResponseEchoesRequestedModel ==
    Succeeded =>
        /\ responses[1].data.model = request_body.model
        /\ bedrock_request.modelId # request_body.model =>
              responses[1].data.model # bedrock_request.modelId

\* A streaming call for a model name that is mapped to another backend name
\* ended with a response built from the chunks of the stream.
C20_Witness ==
    /\ Succeeded
    /\ is_streaming(request_body)
    /\ Len(streaming_chunks) > 0
    /\ request_body.model = "gpt-4o-mini"
    /\ bedrock_request.modelId = NovaLite
    /\ responses[1].data.model = "gpt-4o-mini"


\* The backend id the table of the call gives a name; the name itself when
\* the table does not have it.
ResolvedBy(items, name) ==
    IF \E i \in 1..Len(items) : items[i][1] = name
    THEN items[CHOOSE i \in 1..Len(items) : items[i][1] = name][2]
    ELSE name

\* C21: for a name of the converter's mapping table, the name under which
\* the resolved backend id is listed resolves to the same backend id; a name
\* the table does not have is resolved to itself, and resolving never fails.
C21_ModelNameRoundTrip ==
    call.fn = "convert_model_name" =>
        LET table == model_mappings_of(call.model_mappings)
        IN /\ ~returned.raises
           /\ IF call.openai_model \in Keys(table)
              THEN /\ returned.value.display_id \in Keys(table)
                   /\ ResolvedBy(table, returned.value.display_id)
                        = ResolvedBy(table, call.openai_model)
                   /\ returned.value.bedrock_model
                        = ResolvedBy(table, call.openai_model)
              ELSE returned.value.bedrock_model = call.openai_model

\* gpt-4o, the second of two aliases of one backend model, was resolved and
\* the backend model is listed under the first alias, gpt-4o-mini.
C21_Witness ==
    /\ call.fn = "convert_model_name"
    /\ call.model_mappings = << <<"gpt-4o-mini", "amazon.nova-pro-v1:0">>,
                                <<"gpt-4o", "amazon.nova-pro-v1:0">> >>
    /\ call.openai_model = "gpt-4o"
    /\ returned.value.bedrock_model = "amazon.nova-pro-v1:0"
    /\ returned.value.display_id = "gpt-4o-mini"


\* The finish reason the table gives a stop reason: stop for one it does not
\* have.
FinishReasonOf(stopReason) ==
    CASE stopReason = "end_turn" -> "stop"
      [] stopReason = "tool_use" -> "tool_calls"
      [] stopReason = "max_tokens" -> "length"
      [] stopReason = "stop_sequence" -> "stop"
      [] stopReason = "content_filtered" -> "content_filter"
      [] OTHER -> "stop"

\* The reply has an output, a message, a content and a usage the conversion
\* can read, whatever its stop reason.
IsReadable(r) ==
    r.output \notin {None, "message_none", "content_none"} /\ r.usage # None

\* C22: the conversion of a reply and the conversion of a messageStop event
\* give the one choice the finish reason of the table for the backend's stop
\* reason, and stop for any other stop reason and for a missing one.
C22_StopReasonMappedByTable ==
    /\ (call.fn = "bedrock_to_openai_response" /\ IsReadable(call.r)) =>
          /\ Len(returned.value.choices) = 1
          /\ returned.value.choices[1].finish_reason = FinishReasonOf(call.r.stopReason)
    /\ (call.fn = "convert_streaming_chunk" /\ call.c.type = "message_stop") =>
          /\ Len(returned.value.choices) = 1
          /\ returned.value.choices[1].finish_reason = FinishReasonOf(call.c.stopReason)

\* A messageStop event with the stop reason content_filtered was converted
\* to a chunk with the finish reason content_filter.
C22_Witness ==
    /\ call.fn = "convert_streaming_chunk"
    /\ call.c.type = "message_stop"
    /\ call.c.stopReason = "content_filtered"
    /\ returned.value.choices[1].finish_reason = "content_filter"


\* C23: the usage of a response converted from a backend reply, whatever
\* counts the reply's usage holds or lacks, and of the fallback response has
\* total_tokens equal to prompt_tokens plus completion_tokens.
C23_TotalIsPromptPlusCompletion ==
    (call.fn = "bedrock_to_openai_response" /\ returned.value.has_usage) =>
        returned.value.usage.total_tokens =
            returned.value.usage.prompt_tokens + returned.value.usage.completion_tokens


\* The models list was asked for and answered with 200.
ListSucceeded == call.fn = "handle_models_list" /\ returned.value.statusCode = 200

Entries == returned.value.data.data

\* The aliases configured: the defaults and those of the secret.
ConfiguredAliases == merged_mappings(_cached_secret_data.model_mappings)

\* The models the backend returned for this response: those of the fetch of
\* this call or, when the list came from the cache, those fetched before.
ModelsReturned ==
    IF call.contacted THEN call.outcome.modelSummaries
    ELSE _models_cache.modelSummaries

IsBackendEntryOf(entry, model_id) ==
    entry.id = model_id /\ entry.root = model_id /\ entry.alias_for = Absent

IsAliasEntryOf(entry, item) ==
    entry.id = item[1] /\ entry.alias_for = item[2] /\ entry.root = item[2]

\* Every alias has an entry under its own name that points to the backend
\* model the alias resolves to, aliases of one backend model included.
EveryAliasListed ==
    \A i \in 1..Len(ConfiguredAliases) :
        \E j \in 1..Len(Entries) : IsAliasEntryOf(Entries[j], ConfiguredAliases[i])

\* C24 as stated: the models response has an entry for every model the
\* backend returned and a separate entry for every configured alias that
\* points to the backend model the alias resolves to.
C24_ListsBackendModelsAndAliases ==
    ListSucceeded =>
        /\ \A i \in 1..Len(ModelsReturned) :
              \E j \in 1..Len(Entries) : IsBackendEntryOf(Entries[j], ModelsReturned[i])
        /\ EveryAliasListed


\* C24 amended: the models response has an entry for every model the
\* backend returned whose id contains 'nova', none for any other backend
\* model, and a separate entry for every configured alias that points to the
\* backend model the alias resolves to; it has no further entries.
C24_ListsNovaModelsAndAliases ==
    ListSucceeded =>
        LET nova == SelectSeq(ModelsReturned, IsNova)
        IN /\ \A i \in 1..Len(nova) :
                 \E j \in 1..Len(Entries) : IsBackendEntryOf(Entries[j], nova[i])
           /\ \A i \in 1..Len(ModelsReturned) :
                 ~IsNova(ModelsReturned[i]) =>
                     \A j \in 1..Len(Entries) :
                         ~IsBackendEntryOf(Entries[j], ModelsReturned[i])
           /\ EveryAliasListed
           /\ Len(Entries) = Len(nova) + Len(ConfiguredAliases)

\* The backend returned two Nova models and the secret maps gpt-4o and
\* my-alias to the same backend model: the response lists two backend
\* entries and, among the aliases, both gpt-4o and my-alias.
C24_Witness ==
    /\ ListSucceeded
    /\ call.contacted
    /\ call.outcome.modelSummaries = <<"amazon.nova-lite-v1:0", "amazon.nova-pro-v1:0">>
    /\ _cached_secret_data.model_mappings = CustomMappings
    /\ Len(Entries) = 2 + Len(DefaultMappingItems) + 1
    /\ \E i, j \in 1..Len(Entries) :
          /\ Entries[i].id = "gpt-4o" /\ Entries[i].alias_for = "amazon.nova-pro-v1:0"
          /\ Entries[j].id = "my-alias" /\ Entries[j].alias_for = "amazon.nova-pro-v1:0"

\* list_foundation_models was called on its own.
ListCalled == call.fn = "list_foundation_models"

\* The call found a list fetched before, and the seconds since that fetch.
HadFetchedBefore == ~call.models_cache.is_none /\ call.cache_timestamp # NoTimestamp

SecondsSinceFetch == call.current_time - call.cache_timestamp

\* The list a successful fetch of this call stores: the Nova models of the
\* backend's answer.
FetchedList == SelectSeq(call.outcome.modelSummaries, IsNova)

\* C25: a call of list_foundation_models made less than _cache_ttl seconds
\* after the last successful fetch returns the cached list, does not contact
\* the backend and leaves the list and its timestamp alone; a call made when
\* that time has elapsed contacts the backend and, when the fetch succeeds,
\* returns the fetched list and replaces the cached list and the timestamp.
C25_OneFetchPerTtlWindow ==
    (ListCalled /\ HadFetchedBefore) =>
        IF SecondsSinceFetch < _cache_ttl
        THEN /\ ~returned.contacted
             /\ ~returned.raises
             /\ returned.value = call.models_cache
             /\ _models_cache = call.models_cache
             /\ _cache_timestamp = call.cache_timestamp
        ELSE /\ returned.contacted
             /\ call.outcome.kind = "ok" =>
                   /\ ~returned.raises
                   /\ returned.value.modelSummaries = FetchedList
                   /\ _models_cache = returned.value
                   /\ _cache_timestamp = call.current_time

\* A list fetched at 0 is asked for again at _cache_ttl: the backend is
\* contacted, and its other answer and the new time replace the cache.
C25_Witness ==
    /\ ListCalled
    /\ HadFetchedBefore
    /\ SecondsSinceFetch = _cache_ttl
    /\ returned.contacted
    /\ call.outcome.kind = "ok"
    /\ _models_cache.modelSummaries # call.models_cache.modelSummaries
    /\ _cache_timestamp = call.cache_timestamp + _cache_ttl

\* The call had to fetch, and the fetch failed.
FetchFailed ==
    /\ ListCalled
    /\ ~(HadFetchedBefore /\ SecondsSinceFetch < _cache_ttl)
    /\ call.outcome.kind = "fails"

\* C30: a call of list_foundation_models whose fetch fails raises an error,
\* never returns a list, and leaves the cached list and its timestamp as they
\* were before the call.
C30_FailedFetchRaisesAndKeepsCache ==
    FetchFailed =>
        /\ returned.raises
        /\ returned.value.error_type = "models_error"
        /\ _models_cache = call.models_cache
        /\ _cache_timestamp = call.cache_timestamp

\* A list fetched before has expired and the fetch fails: the call raises,
\* and the expired list and its timestamp are still in the cache.
C30_Witness ==
    /\ FetchFailed
    /\ HadFetchedBefore
    /\ SecondsSinceFetch >= _cache_ttl
    /\ returned.raises
    /\ _models_cache.modelSummaries # <<>>
    /\ _models_cache = call.models_cache

\* get_openai_api_key was called on its own.
KeyCalled == call.fn = "get_openai_api_key"

\* The step is a call that read the key from the secret store.
KeyFetched ==
    /\ call'.fn \in {"get_openai_api_key", "get_model_mapping"}
    /\ returned'.contacted
    /\ _cached_api_key' = call'.secret.openai_api_key

\* C27: a call of get_openai_api_key that finds a cached key returns that key
\* without contacting the secret store, whatever the clock shows; a call that
\* finds none contacts the store; a cached key stays as it is until
\* clear_cache empties the cache, and it is only ever set by a call that read
\* it from the store.
C27_KeyCachedUntilCleared ==
    /\ [](KeyCalled =>
             IF call.api_key # None
             THEN /\ ~returned.contacted
                  /\ ~returned.raises
                  /\ returned.value = call.api_key
                  /\ _cached_api_key = call.api_key
             ELSE /\ returned.contacted
                  /\ ~returned.raises =>
                        /\ returned.value = call.secret.openai_api_key
                        /\ _cached_api_key = returned.value)
    /\ [](call.fn = "clear_cache" => _cached_api_key = None)
    /\ [][_cached_api_key # None =>
             \/ _cached_api_key' = _cached_api_key
             \/ call'.fn = "clear_cache" /\ _cached_api_key' = None]_vars
    /\ [][(_cached_api_key = None /\ _cached_api_key' # None) => KeyFetched]_vars

\* The key sk-1 was cached, _cache_ttl seconds or more have passed and the
\* store now holds another key: the call returns sk-1 and does not contact
\* the store.
C27_Witness ==
    /\ KeyCalled
    /\ clock >= _cache_ttl
    /\ call.api_key = "sk-1"
    /\ call.secret.kind = "ok"
    /\ call.secret.openai_api_key = "sk-2"
    /\ returned.value = "sk-1"
    /\ ~returned.contacted

\* The call of thread t returned the list it found in the cache.
ReturnedCached(t) ==
    threads[t].pc = "returned" /\ threads[t].seen_timestamp # NoTimestamp

\* No call is between its two writes of the cache.
NoRefreshUnderWay ==
    \A t \in Threads : threads[t].pc # "write_cache_timestamp"

\* C26 as stated: with calls of list_foundation_models overlapping, a caller
\* that returns the cached list returns the list that belongs to the
\* timestamp it judged the cache by, never a list paired with the timestamp
\* of another fetch; and once no refresh is under way the cached list and the
\* cached timestamp are those of one fetch.
C26_NoTornRead ==
    /\ \A t \in Threads :
          ReturnedCached(t) => threads[t].result.fetched_at = threads[t].seen_timestamp
    /\ (NoRefreshUnderWay /\ ~_models_cache.is_none) =>
          _models_cache.fetched_at = _cache_timestamp

\* The event is a ContentBlockDelta that carries a text fragment.
HasFragment(c) == c.type = "content_block_delta" /\ c.text # Absent

RECURSIVE TextOfStream(_)
\* The text fragments of the ContentBlockDelta events of a sequence, joined
\* in the order of their arrival.
TextOfStream(chunks) ==
    IF Len(chunks) = 0 THEN ""
    ELSE (IF HasFragment(chunks[1]) THEN chunks[1].text ELSE "")
             \o TextOfStream(Tail(chunks))

\* C28: when the stream of a streaming request ends without error and
\* carried text, the response has a choice whose assistant message holds the
\* text fragments of all ContentBlockDelta events joined in the order of
\* their arrival.
C28_ResponseHoldsAllFragments ==
    ( /\ pc = "responded"
      /\ stream_state = "ended"
      /\ \E i \in 1..Len(streamed) : HasFragment(streamed[i]) ) =>
        LET data == responses[1].data
        IN /\ responses[1].statusCode = 200
           /\ Len(data.choices) = 1
           /\ data.choices[1].content = TextOfStream(streamed)

\* The call that has responded was given what the remembered call was given.
SameAsRemembered ==
    /\ pc = "responded"
    /\ call.fn = "handle_chat_completion"
    /\ call.given = Given

\* C29: a call that is given the same event, the same configuration and the
\* same reply or failure of the backend as an earlier call of the same
\* handler gets the same response, whatever calls came in between.
C29_SameInputsSameResponse ==
    SameAsRemembered => responses[1] = returned.value

\* A streaming call got a 200 response; a call before it was given the same
\* and at least one other call was handled in between.
C29_Witness ==
    /\ SameAsRemembered
    /\ call.calls_since >= 1
    /\ request_body.stream
    /\ Len(streamed) > 0
    /\ responses[1].statusCode = 200
    /\ responses[1] = returned.value

====
